---------------------------- MODULE Spec2Model ----------------------------
(***************************************************************************)
(* A model of the stratinho AHRS core.                                     *)
(*                                                                         *)
(*  Part I   src/mpu9250/mpu9250.go : the sensor reader goroutine          *)
(*           readMPURaw, the accumulators it shares with Read under the    *)
(*           mutex m.m, and the calibration calls.  Specification: Spec.   *)
(*           SpecBus adds CloseMPU and the register writes of the public   *)
(*           setters to the reader.                                        *)
(*  Part II  src/ahrs/ahrs.go : the Kalman filter State with Initialize,   *)
(*           Predict, Update.  Specification: SpecAHRS.                    *)
(*  Part III one filter call on a state drawn from a bounded set.          *)
(*           Specification: SpecStep.                                      *)
(*  Part IV  src/sim/ahrs_sim.go : the scenario queries and the angle /    *)
(*           quaternion conversions.  Specification: SpecSim.              *)
(*  Part V   the gain of Update from the rows of the measurement Jacobian. *)
(*           Specification: SpecGain.                                      *)
(***************************************************************************)
EXTENDS Integers, Sequences, FiniteSets, TLC

VARIABLES
    mu,        \* m.m : "free", or the thread holding the mutex
    rpc,       \* position of the goroutine readMPURaw
    rl,        \* locals of readMPURaw: g1..a3, m1..m4 (int16), kept across ticks
    acc,       \* accumulators m.g1..m.m3 (int32) and counts m.n, m.nm
    bias,      \* m.g01..m.g03, m.a01..m.a03 (int16)
    mcal,      \* m.mcal1..m.mcal3
    cpc,       \* position of the calling thread (fusion loop)
    cl,        \* locals and results of the call in progress / last finished
    panicked,  \* the process died of a run-time panic
    ticks,     \* reader ticks consumed so far (bounded by MaxTicks)
    calls,     \* public calls started so far (bounded by MaxCalls)
    hist,      \* history: every gyro/accel/mag sample added to the sums, in order
    s,         \* Part II: the filter State; Part IV: the Situation queried
    fpc        \* Part II: what the filter did last; Part IV: the last query

mpuVars == <<mu, rpc, rl, acc, bias, mcal, cpc, cl, panicked, ticks, calls, hist>>
ahrsVars == <<s, fpc>>
vars == <<mu, rpc, rl, acc, bias, mcal, cpc, cl, panicked, ticks, calls, hist, s, fpc>>

(***************************************************************************)
(* Bounds of the model.                                                    *)
(***************************************************************************)
MaxTicks == 2      \* reader ticks explored
MaxCalls == 2      \* public calls (Read, Calibrate...) explored

(***************************************************************************)
(* Integer widths.                                                         *)
(***************************************************************************)
MaxInt16 == 32767

\* Go's conversion to int16 / wrap-around of int16 arithmetic
Int16(x) == ((x + 32768) % 65536) - 32768

\* Go's integer division truncates toward zero (b > 0 here)
TruncDiv(a, b) == IF a >= 0 THEN a \div b ELSE -((-a) \div b)

\* x & mask # 0 for a one-bit mask, x an int16 or a byte
HasBit(x, mask) == ((x \div mask) % 2) = 1

(***************************************************************************)
(* Configuration NewMPU9250 was called with, and the constants it uses.    *)
(***************************************************************************)
sampleRate == 2          \* mpu.sampleRate, samples per second
scaleGyroNum == 250      \* mpu.scaleGyro  = 250.0 / float64(math.MaxInt16)
scaleAccelNum == 16      \* mpu.scaleAccel = 16.0 / float64(math.MaxInt16)
maxVar == 10             \* const maxVar = 10.0 in CalibrateGyro / CalibrateAccel
MAXGYROVAR == 10
MAXACCELVAR == 10
USEMAG == TRUE
AKM_DATA_READY == 1
AKM_DATA_OVERRUN == 2
AKM_OVERFLOW == 128

Threads == {"reader", "caller"}

GARegs == <<"g1", "g2", "g3", "a1", "a2", "a3">>
GyroRegs == <<"g1", "g2", "g3">>
AccelRegs == <<"a1", "a2", "a3">>
MagRegs == <<"m1", "m2", "m3", "m4">>

(***************************************************************************)
(* What the bus can deliver: 16-bit words, per register of one tick.       *)
(***************************************************************************)
GASamples == { <<5, 0, 65533, 0, 0, 2047>>,          \* 5, 0, -3, 0, 0, 2047
               <<32767, 7, 0, 9, 0, 2047>> }
MagSamples == { <<1, 256, 512, 0>>,        \* data ready
                <<2, 256, 512, 0>>,        \* not ready, overrun
                <<0, 256, 512, 0>>,        \* not ready, no overrun
                <<1, 256, 512, 32768>> }   \* overflow bit in the trailing byte
CalSamples == { <<3, 0, 65533, 0, 0, 2047>>,         \* sensor at rest
                <<1003, 0, 65533, 16000, 0, 2047>> } \* sensor moved
Durs == {0, 1}           \* calibration durations, s
AsaBytes == <<176, 128, 100>>  \* fuse-ROM sensitivity adjustment bytes read
GAFails == {0, 2, 5}     \* which gyro/accel register read fails (0: none)
MagFails == {0, 3}       \* which magnetometer register read fails (0: none)
CalFails == {0, 2, 5}    \* which register read of a calibration pass fails

\* the i-th read of a sequence fails (0: none does)
BusSeq(sample, failAt) ==
    [i \in 1..Len(sample) |-> [ok |-> i # failAt, word |-> sample[i]]]

(***************************************************************************)
(* i2cRead2: on a bus error the error text is built from err.Error() with  *)
(* err the still-nil named result, a nil dereference: the call panics.     *)
(***************************************************************************)
i2cRead2(b) ==
    IF b.ok THEN [value |-> Int16(b.word), err |-> FALSE, panic |-> FALSE]
            ELSE [value |-> 0, err |-> FALSE, panic |-> TRUE]

(***************************************************************************)
(* A run of "x, err = m.i2cRead2(REG); if err != nil { leave }" blocks:    *)
(* the registers regs[i..] are read in order into the locals until one     *)
(* read fails.                                                             *)
(***************************************************************************)
RECURSIVE readRegs(_, _, _, _)
readRegs(regs, bs, i, locals) ==
    IF i > Len(regs)
    THEN [rl |-> locals, err |-> FALSE, panic |-> FALSE]
    ELSE LET r == i2cRead2(bs[i]) IN
         IF r.panic
         THEN [rl |-> locals, err |-> FALSE, panic |-> TRUE]
         ELSE IF r.err
              THEN [rl |-> [locals EXCEPT ![regs[i]] = r.value, !.err = TRUE],
                    err |-> TRUE, panic |-> FALSE]
              ELSE readRegs(regs, bs, i + 1,
                            [locals EXCEPT ![regs[i]] = r.value, !.err = FALSE])

(***************************************************************************)
(* The mutex m.m.                                                          *)
(***************************************************************************)
LockNoWait(t) == mu' = t

Lock(t) == mu = "free" /\ mu' = t

Unlock(t) == mu' = "free"

(***************************************************************************)
(* Initial values.                                                         *)
(***************************************************************************)
ZeroAcc == [g1 |-> 0, g2 |-> 0, g3 |-> 0, a1 |-> 0, a2 |-> 0, a3 |-> 0,
            m1 |-> 0, m2 |-> 0, m3 |-> 0, n |-> 0, nm |-> 0]

ZeroFrac == <<0, 1>>

ZeroRes == [g1 |-> ZeroFrac, g2 |-> ZeroFrac, g3 |-> ZeroFrac,
            a1 |-> ZeroFrac, a2 |-> ZeroFrac, a3 |-> ZeroFrac,
            m1 |-> ZeroFrac, m2 |-> ZeroFrac, m3 |-> ZeroFrac,
            gaError |-> FALSE, magError |-> FALSE]

ClInit == [op |-> "none", ret |-> "none", n |-> 0, i |-> 0,
           g11 |-> 0, g12 |-> 0, g13 |-> 0, g21 |-> 0, g22 |-> 0, g23 |-> 0,
           a11 |-> 0, a12 |-> 0, a13 |-> 0, a21 |-> 0, a22 |-> 0, a23 |-> 0,
           res |-> ZeroRes]

ZeroLocals == [g1 |-> 0, g2 |-> 0, g3 |-> 0, a1 |-> 0, a2 |-> 0, a3 |-> 0,
               m1 |-> 0, m2 |-> 0, m3 |-> 0, m4 |-> 0, err |-> FALSE]

ZeroBias == [g01 |-> 0, g02 |-> 0, g03 |-> 0, a01 |-> 0, a02 |-> 0, a03 |-> 0]

\* mpu.mcalN = int32(mcalN + 128), the sum taken in uint8
McalOf(asa) == (asa + 128) % 256


AddAcc(x, y) == [k \in DOMAIN x |-> x[k] + y[k]]
SubAcc(x, y) == [k \in DOMAIN x |-> x[k] - y[k]]

(***************************************************************************)
(* readMPURaw, one tick: gyro and accelerometer.  The difference reading - *)
(* bias is taken in int16 and then widened.  The sums stay far inside      *)
(* int32 for MaxTicks ticks.                                               *)
(***************************************************************************)
accumulateGA(a, l, b) ==
    [a EXCEPT !.g1 = @ + Int16(l.g1 - b.g01),
              !.g2 = @ + Int16(l.g2 - b.g02),
              !.g3 = @ + Int16(l.g3 - b.g03),
              !.a1 = @ + Int16(l.a1 - b.a01),
              !.a2 = @ + Int16(l.a2 - b.a02),
              !.a3 = @ + Int16(l.a3 - b.a03),
              !.n = @ + 1]

gyroAccelTick(bs, l, a, b) ==
    LET r == readRegs(GARegs, bs, 1, l) IN
    IF r.panic THEN [rl |-> r.rl, acc |-> a, panic |-> TRUE]
    ELSE IF r.err THEN [rl |-> r.rl, acc |-> a, panic |-> FALSE]
    ELSE [rl |-> r.rl, acc |-> accumulateGA(a, r.rl, b), panic |-> FALSE]

(***************************************************************************)
(* readMPURaw, one tick: magnetometer.  "returned" is the bare return of   *)
(* the goroutine, which skips m.m.Unlock().                                *)
(***************************************************************************)
accumulateMag(a, l, mc) ==
    [a EXCEPT !.m1 = @ + ((l.m1 * mc[1]) \div 256),
              !.m2 = @ + ((l.m2 * mc[2]) \div 256),
              !.m3 = @ + ((l.m3 * mc[3]) \div 256),
              !.nm = @ + 1]

magNotReadyOrOverrun(l) ==
    /\ ~HasBit(l.m1 % 256, AKM_DATA_READY)
    /\ HasBit(l.m1 % 256, AKM_DATA_OVERRUN)

magOverflow(l) == HasBit((l.m4 \div 256) % 256, AKM_OVERFLOW)

magTickIgnoresOverflow(bs, l, a, mc) ==
    LET r == readRegs(MagRegs, bs, 1, l) IN
    IF r.panic
    THEN [rl |-> r.rl, acc |-> a, panic |-> TRUE, returned |-> FALSE]
    ELSE IF r.err \/ magNotReadyOrOverrun(r.rl)
         THEN [rl |-> r.rl, acc |-> a, panic |-> FALSE, returned |-> TRUE]
         ELSE [rl |-> r.rl, acc |-> accumulateMag(a, r.rl, mc),
               panic |-> FALSE, returned |-> magOverflow(r.rl)]

magTick(bs, l, a, mc) ==
    IF ~USEMAG THEN [rl |-> l, acc |-> a, panic |-> FALSE, returned |-> FALSE]
    ELSE LET r == readRegs(MagRegs, bs, 1, l) IN
         IF r.panic
         THEN [rl |-> r.rl, acc |-> a, panic |-> TRUE, returned |-> FALSE]
         ELSE IF r.err \/ magNotReadyOrOverrun(r.rl) \/ magOverflow(r.rl)
              THEN [rl |-> r.rl, acc |-> a, panic |-> FALSE, returned |-> TRUE]
              ELSE [rl |-> r.rl, acc |-> accumulateMag(a, r.rl, mc),
                    panic |-> FALSE, returned |-> FALSE]

(***************************************************************************)
(* Read: the averages of the sums, as exact fractions <<num, den>>.        *)
(***************************************************************************)
readAverages(a) ==
    LET ga == a.n > 0
        mg == a.nm > 0
        G(x) == IF ga THEN <<x * scaleGyroNum, a.n * MaxInt16>> ELSE ZeroFrac
        A(x) == IF ga THEN <<x * scaleAccelNum, a.n * MaxInt16>> ELSE ZeroFrac
        M(x) == IF mg THEN <<x, a.nm>> ELSE ZeroFrac
    IN [g1 |-> G(a.g1), g2 |-> G(a.g2), g3 |-> G(a.g3),
        a1 |-> A(a.a1), a2 |-> A(a.a2), a3 |-> A(a.a3),
        m1 |-> M(a.m1), m2 |-> M(a.m2), m3 |-> M(a.m3),
        gaError |-> ~ga, magError |-> (~mg /\ USEMAG)]

readResetKeepsCount(a) == [ZeroAcc EXCEPT !.n = a.n]

readReset(a) == ZeroAcc

(***************************************************************************)
(* Calibrate, CalibrateGyro, CalibrateAccel.                               *)
(***************************************************************************)
CalKinds == {"Calibrate", "CalibrateGyro", "CalibrateAccel"}

\* int16(1.0/m.scaleAccel)
OneG == MaxInt16 \div scaleAccelNum

CalLocals == [g1 |-> 0, g2 |-> 0, g3 |-> 0, a1 |-> 0, a2 |-> 0, a3 |-> 0,
              err |-> FALSE]

calAddGyro(c, l) ==
    [c EXCEPT !.g11 = @ + l.g1, !.g12 = @ + l.g2, !.g13 = @ + l.g3,
              !.g21 = @ + l.g1 * l.g1, !.g22 = @ + l.g2 * l.g2,
              !.g23 = @ + l.g3 * l.g3]

calAddAccel(c, l) ==
    LET a3 == Int16(l.a3 - OneG) IN
    [c EXCEPT !.a11 = @ + l.a1, !.a12 = @ + l.a2, !.a13 = @ + a3,
              !.a21 = @ + l.a1 * l.a1, !.a22 = @ + l.a2 * l.a2,
              !.a23 = @ + a3 * a3]

\* one pass of the sampling loop: [cl, err, panic]
calSample(kind, bs, c) ==
    LET rg == IF kind = "CalibrateAccel"
              THEN [rl |-> CalLocals, err |-> FALSE, panic |-> FALSE]
              ELSE readRegs(GyroRegs, SubSeq(bs, 1, 3), 1, CalLocals)
        cg == IF kind = "CalibrateAccel" THEN c ELSE calAddGyro(c, rg.rl)
        ra == IF kind = "CalibrateGyro"
              THEN [rl |-> rg.rl, err |-> FALSE, panic |-> FALSE]
              ELSE readRegs(AccelRegs, SubSeq(bs, 4, 6), 1, rg.rl)
        ca == IF kind = "CalibrateGyro" THEN cg ELSE calAddAccel(cg, ra.rl)
    IN IF rg.panic \/ rg.err
       THEN [cl |-> c, err |-> rg.err, panic |-> rg.panic]
       ELSE IF ra.panic \/ ra.err
            THEN [cl |-> cg, err |-> ra.err, panic |-> ra.panic]
            ELSE [cl |-> [ca EXCEPT !.i = @ + 1], err |-> FALSE, panic |-> FALSE]

\* float64(x)*scale*scale > float64(n)*lim with scale = num/MaxInt16, decided
\* exactly: x*num^2 > n*lim*MaxInt16^2, split so that no product leaves 32 bits
VarExceeds(x, num, n, lim) ==
    LET num2 == num * num
        den2 == MaxInt16 * MaxInt16
        q == den2 \div num2
        r == den2 % num2
        d == x - n * lim * q
    IN IF d <= 0 THEN FALSE
       ELSE IF d > n * lim THEN TRUE
       ELSE d * num2 > n * lim * r

\* g21 - int64(g11)*int64(g11)/int64(n)
SumSqDev(s2, s1, n) == s2 - TruncDiv(s1 * s1, n)

gyroMoved(c, lim) ==
    \/ VarExceeds(SumSqDev(c.g21, c.g11, c.n), scaleGyroNum, c.n, lim)
    \/ VarExceeds(SumSqDev(c.g22, c.g12, c.n), scaleGyroNum, c.n, lim)
    \/ VarExceeds(SumSqDev(c.g23, c.g13, c.n), scaleGyroNum, c.n, lim)

accelMoved(c, lim) ==
    \/ VarExceeds(SumSqDev(c.a21, c.a11, c.n), scaleAccelNum, c.n, lim)
    \/ VarExceeds(SumSqDev(c.a22, c.a12, c.n), scaleAccelNum, c.n, lim)
    \/ VarExceeds(SumSqDev(c.a23, c.a13, c.n), scaleAccelNum, c.n, lim)

notInertial(kind, c) ==
    CASE kind = "Calibrate" -> gyroMoved(c, MAXGYROVAR) \/ accelMoved(c, MAXACCELVAR)
      [] kind = "CalibrateGyro" -> gyroMoved(c, maxVar)
      [] kind = "CalibrateAccel" -> accelMoved(c, maxVar)

writeGyroBias(c, b) ==
    [b EXCEPT !.g01 = Int16(TruncDiv(c.g11, c.n)),
              !.g02 = Int16(TruncDiv(c.g12, c.n)),
              !.g03 = Int16(TruncDiv(c.g13, c.n))]

writeAccelBias(c, b) ==
    [b EXCEPT !.a01 = Int16(TruncDiv(c.a11, c.n)),
              !.a02 = Int16(TruncDiv(c.a12, c.n)),
              !.a03 = Int16(TruncDiv(c.a13, c.n))]

writeBias(kind, c, b) ==
    CASE kind = "Calibrate" -> writeAccelBias(c, writeGyroBias(c, b))
      [] kind = "CalibrateGyro" -> writeGyroBias(c, b)
      [] kind = "CalibrateAccel" -> writeAccelBias(c, b)

calFinishWritesFirst(kind, c, b) ==
    IF c.n = 0
    THEN [bias |-> b, ret |-> "none", panic |-> TRUE, unlock |-> FALSE]
    ELSE IF notInertial(kind, c)
         THEN [bias |-> writeBias(kind, c, b), ret |-> "error", panic |-> FALSE,
               unlock |-> FALSE]
         ELSE [bias |-> writeBias(kind, c, b), ret |-> "nil", panic |-> FALSE,
               unlock |-> TRUE]

\* after the loop: [bias, ret, panic, unlock].  With n = 0 the variance
\* expressions divide an integer by zero: a run-time panic.
calFinish(kind, c, b) ==
    IF c.n = 0
    THEN [bias |-> b, ret |-> "none", panic |-> TRUE, unlock |-> FALSE]
    ELSE IF notInertial(kind, c)
         THEN [bias |-> b, ret |-> "error", panic |-> FALSE, unlock |-> FALSE]
         ELSE [bias |-> writeBias(kind, c, b), ret |-> "nil", panic |-> FALSE,
               unlock |-> TRUE]

(***************************************************************************)
(* Part I: actions.  A panic ends the process: nothing is enabled after.   *)
(***************************************************************************)
HWBias == [g01 |-> -1, g02 |-> 2, g03 |-> 0, a01 |-> 0, a02 |-> 0, a03 |-> 1]

InitMPU ==
    /\ mu = "free"
    /\ rpc = "tick"
    /\ rl = ZeroLocals
    /\ acc = ZeroAcc
    /\ bias = HWBias
    /\ mcal = <<McalOf(AsaBytes[1]), McalOf(AsaBytes[2]), McalOf(AsaBytes[3])>>
    /\ cpc = "idle"
    /\ cl = ClInit
    /\ panicked = FALSE
    /\ ticks = 0
    /\ calls = 0
    /\ hist = [tot |-> ZeroAcc, got |-> ZeroAcc, snap |-> ZeroAcc,
               busFail |-> FALSE, biasWas |-> bias,
               closed |-> FALSE, closeTicks |-> 0, closeTot |-> ZeroAcc,
               closeIdle |-> FALSE, wroteAt |-> "none"]

\* <-clock.C
ReaderTick ==
    /\ ~panicked /\ rpc = "tick" /\ ticks < MaxTicks
    /\ rpc' = "lock"
    /\ ticks' = ticks + 1
    /\ UNCHANGED <<mu, rl, acc, bias, mcal, cpc, cl, panicked, calls, hist, s, fpc>>

ReaderLock ==
    /\ ~panicked /\ rpc = "lock"
    /\ Lock("reader")
    /\ rpc' = "gyroaccel"
    /\ UNCHANGED <<rl, acc, bias, mcal, cpc, cl, panicked, ticks, calls, hist, s, fpc>>

ReaderGyroAccel ==
    /\ ~panicked /\ rpc = "gyroaccel"
    /\ \E smp \in GASamples, f \in GAFails :
         LET o == gyroAccelTick(BusSeq(smp, f), rl, acc, bias) IN
         /\ rl' = o.rl
         /\ acc' = o.acc
         /\ panicked' = o.panic
         /\ rpc' = IF o.panic THEN rpc ELSE "mag"
         /\ hist' = [hist EXCEPT !.tot = AddAcc(@, SubAcc(o.acc, acc)),
                                 !.busFail = @ \/ (f # 0)]
    /\ UNCHANGED <<mu, bias, mcal, cpc, cl, ticks, calls, s, fpc>>

ReaderMag ==
    /\ ~panicked /\ rpc = "mag"
    /\ \E smp \in MagSamples, f \in MagFails :
         LET o == magTick(BusSeq(smp, f), rl, acc, mcal) IN
         /\ rl' = o.rl
         /\ acc' = o.acc
         /\ panicked' = o.panic
         /\ rpc' = IF o.panic THEN rpc
                   ELSE IF o.returned THEN "returned" ELSE "unlock"
         /\ hist' = [hist EXCEPT !.tot = AddAcc(@, SubAcc(o.acc, acc)),
                                 !.busFail = @ \/ (f # 0)]
    /\ UNCHANGED <<mu, bias, mcal, cpc, cl, ticks, calls, s, fpc>>

ReaderUnlock ==
    /\ ~panicked /\ rpc = "unlock"
    /\ Unlock("reader")
    /\ rpc' = "tick"
    /\ UNCHANGED <<rl, acc, bias, mcal, cpc, cl, panicked, ticks, calls, hist, s, fpc>>

CallRead ==
    /\ ~panicked /\ cpc = "idle" /\ calls < MaxCalls
    /\ cpc' = "read_lock"
    /\ cl' = [ClInit EXCEPT !.op = "Read"]
    /\ calls' = calls + 1
    /\ hist' = [hist EXCEPT !.biasWas = bias]
    /\ UNCHANGED <<mu, rpc, rl, acc, bias, mcal, panicked, ticks, s, fpc>>

ReadLock ==
    /\ ~panicked /\ cpc = "read_lock"
    /\ Lock("caller")
    /\ cpc' = "read_avg"
    /\ UNCHANGED <<rpc, rl, acc, bias, mcal, cl, panicked, ticks, calls, hist, s, fpc>>

ReadAverage ==
    /\ ~panicked /\ cpc = "read_avg"
    /\ cl' = [cl EXCEPT !.res = readAverages(acc)]
    /\ hist' = [hist EXCEPT !.snap = acc]
    /\ cpc' = "read_reset"
    /\ UNCHANGED <<mu, rpc, rl, acc, bias, mcal, panicked, ticks, calls, s, fpc>>

ReadReset ==
    /\ ~panicked /\ cpc = "read_reset"
    /\ acc' = readReset(acc)
    /\ hist' = [hist EXCEPT !.got = AddAcc(@, hist.snap)]
    /\ cpc' = "read_unlock"
    /\ UNCHANGED <<mu, rpc, rl, bias, mcal, cl, panicked, ticks, calls, s, fpc>>

ReadUnlock ==
    /\ ~panicked /\ cpc = "read_unlock"
    /\ Unlock("caller")
    /\ cpc' = "idle"
    /\ cl' = [cl EXCEPT !.ret = "nil"]
    /\ UNCHANGED <<rpc, rl, acc, bias, mcal, panicked, ticks, calls, hist, s, fpc>>

CallCalibrate ==
    /\ ~panicked /\ cpc = "idle" /\ calls < MaxCalls
    /\ \E kind \in CalKinds, dur \in Durs :
         cl' = [ClInit EXCEPT !.op = kind, !.n = dur * sampleRate]
    /\ cpc' = "cal_lock"
    /\ calls' = calls + 1
    /\ hist' = [hist EXCEPT !.biasWas = bias]
    /\ UNCHANGED <<mu, rpc, rl, acc, bias, mcal, panicked, ticks, s, fpc>>

CalLock ==
    /\ ~panicked /\ cpc = "cal_lock"
    /\ Lock("caller")
    /\ cpc' = "cal_loop"
    /\ UNCHANGED <<rpc, rl, acc, bias, mcal, cl, panicked, ticks, calls, hist, s, fpc>>

CalSample ==
    /\ ~panicked /\ cpc = "cal_loop" /\ cl.i < cl.n
    /\ \E smp \in CalSamples, f \in CalFails :
         LET o == calSample(cl.op, BusSeq(smp, f), cl) IN
         /\ panicked' = o.panic
         /\ cpc' = IF o.err THEN "idle" ELSE cpc
         /\ cl' = IF o.err THEN [o.cl EXCEPT !.ret = "error"] ELSE o.cl
    /\ UNCHANGED <<mu, rpc, rl, acc, bias, mcal, ticks, calls, hist, s, fpc>>

CalFinish ==
    /\ ~panicked /\ cpc = "cal_loop" /\ cl.i = cl.n
    /\ LET o == calFinish(cl.op, cl, bias) IN
         /\ bias' = o.bias
         /\ panicked' = o.panic
         /\ cpc' = IF o.panic THEN cpc ELSE "idle"
         /\ cl' = [cl EXCEPT !.ret = o.ret]
         /\ IF o.unlock THEN Unlock("caller") ELSE UNCHANGED mu
    /\ UNCHANGED <<rpc, rl, acc, mcal, ticks, calls, hist, s, fpc>>

Next ==
    \/ ReaderTick \/ ReaderLock \/ ReaderGyroAccel \/ ReaderMag \/ ReaderUnlock
    \/ CallRead \/ ReadLock \/ ReadAverage \/ ReadReset \/ ReadUnlock
    \/ CallCalibrate \/ CalLock \/ CalSample \/ CalFinish

\* CloseMPU: returns at once.  hist keeps where the reader stood, how many
\* ticks it had consumed and what it had summed when CloseMPU was first
\* called.
CallCloseMPU ==
    /\ ~panicked /\ cpc = "idle" /\ calls < MaxCalls
    /\ cl' = [ClInit EXCEPT !.op = "CloseMPU", !.ret = "nil"]
    /\ calls' = calls + 1
    /\ hist' = IF hist.closed THEN hist
               ELSE [hist EXCEPT !.closed = TRUE, !.closeTicks = ticks,
                                 !.closeTot = hist.tot,
                                 !.closeIdle = (rpc = "tick")]
    /\ UNCHANGED <<mu, rpc, rl, acc, bias, mcal, cpc, panicked, ticks, s, fpc>>

\* SetSampleRate and SetLPF: one i2cWrite, which succeeds or not, with no
\* m.m.Lock().  hist.wroteAt keeps where the reader stood at the write.
registerWrite(op, ok) ==
    /\ cl' = [ClInit EXCEPT !.op = op, !.ret = IF ok THEN "nil" ELSE "error"]
    /\ calls' = calls + 1
    /\ hist' = [hist EXCEPT !.wroteAt = rpc]
    /\ UNCHANGED <<mu, rpc, rl, acc, bias, mcal, cpc, panicked, ticks, s, fpc>>

CallSetSampleRate ==
    /\ ~panicked /\ cpc = "idle" /\ calls < MaxCalls
    /\ \E ok \in BOOLEAN : registerWrite("SetSampleRate", ok)

CallSetLPF ==
    /\ ~panicked /\ cpc = "idle" /\ calls < MaxCalls
    /\ \E ok \in BOOLEAN : registerWrite("SetLPF", ok)

\* the reader with the calls that take no mutex
NextBus ==
    \/ ReaderTick \/ ReaderLock \/ ReaderGyroAccel \/ ReaderMag \/ ReaderUnlock
    \/ CallCloseMPU \/ CallSetSampleRate \/ CallSetLPF

InitAHRSIdle == s = 0 /\ fpc = "none"

Init == InitMPU /\ InitAHRSIdle

Spec == Init /\ [][Next]_vars

SpecBus == Init /\ [][NextBus]_vars

(***************************************************************************)
(* Part I: properties.                                                     *)
(***************************************************************************)

\* C1: after a reader tick in which a bus read failed, the reader is still
\* running (it has not ended and the process has not died), so it goes on
\* to release the mutex and wait for the next tick.
C1_ReaderSurvivesReadFailure ==
    hist.busFail => (~panicked /\ rpc # "returned")

\* C2: wherever readMPURaw or Read touches the accumulators, the thread
\* doing so holds the mutex.
C2_AccessUnderMutex ==
    /\ rpc \in {"gyroaccel", "mag"} => mu = "reader"
    /\ cpc \in {"read_avg", "read_reset"} => mu = "caller"

\* the reader is inside its critical section with samples summed while the
\* caller waits for the mutex in Read
C2_Witness ==
    /\ rpc = "mag" /\ cpc = "read_lock" /\ acc.n > 0 /\ mu = "reader"

\* C3: Read is an atomic snapshot-and-reset.  Every sample ever added to
\* the sums is either still in them or went into exactly one Read's
\* averages; when Read is about to unlock the sums and counts are zero and
\* its results are the averages (sum / count * scale) of what it took; and
\* when it has returned the caller no longer holds the mutex.
C3_ReadSnapshotReset ==
    /\ hist.tot = AddAcc(hist.got, acc)
    /\ cpc = "read_unlock" =>
         /\ acc = ZeroAcc
         /\ mu = "caller"
         /\ cl.res.gaError = (hist.snap.n = 0)
         /\ hist.snap.n > 0 =>
              /\ cl.res.g1 = <<hist.snap.g1 * scaleGyroNum, hist.snap.n * MaxInt16>>
              /\ cl.res.a3 = <<hist.snap.a3 * scaleAccelNum, hist.snap.n * MaxInt16>>
         /\ hist.snap.nm > 0 => cl.res.m2 = <<hist.snap.m2, hist.snap.nm>>
    /\ (cpc = "idle" /\ cl.op = "Read") => (cl.ret = "nil" /\ mu # "caller")

\* a Read has returned averages of real samples and the reader has summed
\* a new sample since
C3_Witness ==
    /\ cpc = "idle" /\ cl.op = "Read" /\ cl.ret = "nil"
    /\ hist.got.n > 0 /\ hist.got.nm > 0 /\ acc.n > 0
    /\ ~cl.res.gaError

\* C4: a reader tick whose gyro/accel read fails leaves g1..g3, a1..a3 and n
\* as they were; a tick whose magnetometer read fails, or whose trailing
\* status byte has the overflow bit, leaves m1..m3 and nm as they were.
GAPart(a) == <<a.g1, a.g2, a.g3, a.a1, a.a2, a.a3, a.n>>
MagPart(a) == <<a.m1, a.m2, a.m3, a.nm>>

C4_FailedTickKeepsSums ==
    [][ /\ ( /\ rpc = "gyroaccel"
             /\ (panicked' \/ (rpc' = "mag" /\ rl'.err)) )
           => GAPart(acc') = GAPart(acc)
        /\ ( /\ rpc = "mag"
             /\ \/ panicked'
                \/ rpc' \in {"unlock", "returned"} /\ (rl'.err \/ magOverflow(rl')) )
           => MagPart(acc') = MagPart(acc)
      ]_vars

\* the reader met the overflow bit on its second tick: the first tick's
\* magnetometer sample is still the only one in the sums
C4_Witness ==
    /\ rpc = "returned" /\ magOverflow(rl) /\ ~magNotReadyOrOverrun(rl)
    /\ acc.nm = 1 /\ acc.n = 2

\* C5: when a calibration call has returned an error, the caller does not
\* hold the mutex.
C5_ErrorReleasesMutex ==
    (cpc = "idle" /\ cl.op \in CalKinds /\ cl.ret = "error") => mu # "caller"

\* C6: a calibration call that returned an error left the biases as they
\* were; they differ from their values at the call only after a return of
\* nil, and are then the integer means of the samples.
C6_BiasKeptOnError ==
    cl.op \in CalKinds =>
      /\ cl.ret # "nil" => bias = hist.biasWas
      /\ (cl.ret = "nil" /\ cl.op # "CalibrateAccel") =>
           /\ bias.g01 = TruncDiv(cl.g11, cl.n)
           /\ bias.g03 = TruncDiv(cl.g13, cl.n)
      /\ (cl.ret = "nil" /\ cl.op # "CalibrateGyro") =>
           bias.a01 = TruncDiv(cl.a11, cl.n)
      /\ (cl.ret = "nil" /\ cl.op = "CalibrateGyro") =>
           <<bias.a01, bias.a02, bias.a03>> =
             <<hist.biasWas.a01, hist.biasWas.a02, hist.biasWas.a03>>

\* a calibration sampled the whole duration, found the sensor moving and
\* returned the error
C6_Witness ==
    /\ cpc = "idle" /\ cl.op \in CalKinds /\ cl.ret = "error"
    /\ cl.n > 0 /\ cl.i = cl.n /\ writeBias(cl.op, cl, bias) # bias

(***************************************************************************)
(* Part II: src/ahrs/ahrs.go.                                              *)
(*                                                                         *)
(* The float64 scalars of State and Measurement are exact fractions        *)
(* <<numerator, denominator>>, denominator positive, in lowest terms.      *)
(* The inputs are chosen so that every square root taken is the root of a  *)
(* perfect square; Sqrt is undefined (an evaluation error) elsewhere.      *)
(***************************************************************************)
MaxSteps == 2      \* Predict / Update calls explored after Initialize

\* the element of a one-element set.  Only({F(x) : x \in {e}}) is F applied
\* to the value of e: x is a local variable, e is evaluated once.
Only(S) == CHOOSE r \in S : TRUE

Abs(x) == IF x < 0 THEN -x ELSE x

RECURSIVE GCD(_, _)
GCD(a, b) == IF b = 0 THEN a ELSE Only({GCD(b, m) : m \in {a % b}})

\* the fraction n/d in lowest terms (d # 0)
Rat(n, d) ==
    Only({IF d < 0 THEN <<(-n) \div g, (-d) \div g>>
                   ELSE <<n \div g, d \div g>> : g \in {GCD(Abs(n), Abs(d))}})

R(i) == <<i, 1>>
\* sums over the least common denominator
RAdd(x, y) ==
    Only({Rat(q[1] * (q[4] \div q[5]) + q[3] * (q[2] \div q[5]),
              (q[2] \div q[5]) * q[4]) :
            q \in {<<p[1][1], p[1][2], p[2][1], p[2][2],
                     GCD(p[1][2], p[2][2])>> : p \in {<<x, y>>}}})
RSub(x, y) ==
    Only({Rat(q[1] * (q[4] \div q[5]) - q[3] * (q[2] \div q[5]),
              (q[2] \div q[5]) * q[4]) :
            q \in {<<p[1][1], p[1][2], p[2][1], p[2][2],
                     GCD(p[1][2], p[2][2])>> : p \in {<<x, y>>}}})
RMul(x, y) ==
    Only({Rat(p[1][1] * p[2][1], p[1][2] * p[2][2]) : p \in {<<x, y>>}})
RDiv(x, y) ==
    Only({Rat(p[1][1] * p[2][2], p[1][2] * p[2][1]) : p \in {<<x, y>>}})
RNeg(x) == Only({<<-p[1], p[2]>> : p \in {x}})
RGt(x, y) == Only({p[1][1] * p[2][2] > p[2][1] * p[1][2] : p \in {<<x, y>>}})
RAdd3(x, y, z) == RAdd(RAdd(x, y), z)
RAdd4(w, x, y, z) == RAdd(RAdd(w, x), RAdd(y, z))

\* math.Sqrt on a fraction whose numerator and denominator are squares
ISqrt(n) == CHOOSE r \in 0..(IF n < 46340 THEN n ELSE 46340) : r * r = n
Sqrt(x) == Only({<<ISqrt(p[1]), ISqrt(p[2])>> : p \in {x}})
Hypot(x, y) == Sqrt(RAdd(RMul(x, x), RMul(y, y)))

\* const ( G ; Big ; Deg ).  Deg = math.Pi/180 with Pi taken as 355/113.
G == <<3217400, 168781>>
Big == 1000000000
Deg == <<71, 4068>>

Half == <<1, 2>>
Zero == <<0, 1>>
One == <<1, 1>>

\* the 32 state scalars in the order of the covariance matrix
StateOrder ==
    <<"U1", "U2", "U3", "Z1", "Z2", "Z3", "E0", "E1", "E2", "E3",
      "H1", "H2", "H3", "N1", "N2", "N3",
      "V1", "V2", "V3", "C1", "C2", "C3", "F0", "F1", "F2", "F3",
      "D1", "D2", "D3", "L1", "L2", "L3">>

Scalars == {StateOrder[i] : i \in 1..Len(StateOrder)}

Caches ==
    {"e11", "e12", "e13", "e21", "e22", "e23", "e31", "e32", "e33",
     "f11", "f12", "f13", "f21", "f22", "f23", "f31", "f32", "f33"}

\* new(State): every float64 is 0; T is kept as an integer number of
\* seconds; M is the expression that produced the covariance
NewState ==
    [f \in Scalars \cup Caches \cup {"T", "M"} |->
        IF f = "T" THEN 0 ELSE IF f = "M" THEN <<>> ELSE Zero]

\* the scalars of a state, without T, M and the caches
ScalarsOf(st) == [f \in Scalars |-> st[f]]

\* 2 * (a*a + b*b - 0.5)
QD(a, b) == RMul(R(2), RSub(RAdd(RMul(a, a), RMul(b, b)), Half))
\* 2 * (+a*b + c*d)
QP(a, b, c, d) == RMul(R(2), RAdd(RMul(a, b), RMul(c, d)))
\* 2 * (-a*b + c*d)
QM(a, b, c, d) == RMul(R(2), RSub(RMul(c, d), RMul(a, b)))

\* math.Sqrt(a*a + b*b + c*c + d*d)
Norm4(a, b, c, d) ==
    Sqrt(RAdd4(RMul(a, a), RMul(b, b), RMul(c, c), RMul(d, d)))

\* lines 67-77 with F divided by the norm of E
unitQuaternionsOneNorm(st) ==
    Only({[st EXCEPT
            !.E0 = RDiv(@, ee), !.E1 = RDiv(@, ee),
            !.E2 = RDiv(@, ee), !.E3 = RDiv(@, ee),
            !.F0 = RDiv(@, ee), !.F1 = RDiv(@, ee),
            !.F2 = RDiv(@, ee), !.F3 = RDiv(@, ee)] :
          ee \in {Norm4(st.E0, st.E1, st.E2, st.E3)}})

\* lines 67-77: E and F divided by their norms
unitQuaternions(st) ==
    Only({[st EXCEPT
            !.E0 = RDiv(@, ee), !.E1 = RDiv(@, ee),
            !.E2 = RDiv(@, ee), !.E3 = RDiv(@, ee),
            !.F0 = RDiv(@, ff), !.F1 = RDiv(@, ff),
            !.F2 = RDiv(@, ff), !.F3 = RDiv(@, ff)] :
          ee \in {Norm4(st.E0, st.E1, st.E2, st.E3)},
          ff \in {Norm4(st.F0, st.F1, st.F2, st.F3)}})

\* lines 79-99.  Line 81 assigns e21 and line 83 assigns it again: e12 is
\* never assigned and e21 keeps the value of line 83.
rotationCaches(u) ==
    [u EXCEPT
        !.e11 = QD(u.E0, u.E1),
        !.e13 = QM(u.E0, u.E2, u.E1, u.E3),
        !.e21 = QM(u.E0, u.E3, u.E2, u.E1),
        !.e22 = QD(u.E0, u.E2),
        !.e23 = QP(u.E0, u.E1, u.E2, u.E3),
        !.e31 = QP(u.E0, u.E2, u.E3, u.E1),
        !.e32 = QM(u.E0, u.E1, u.E3, u.E2),
        !.e33 = QD(u.E0, u.E3),
        !.f11 = QD(u.F0, u.F1),
        !.f12 = QP(u.F0, u.F3, u.F1, u.F2),
        !.f13 = QM(u.F0, u.F2, u.F1, u.F3),
        !.f21 = QM(u.F0, u.F3, u.F2, u.F1),
        !.f22 = QD(u.F0, u.F2),
        !.f23 = QP(u.F0, u.F1, u.F2, u.F3),
        !.f31 = QP(u.F0, u.F2, u.F3, u.F1),
        !.f32 = QM(u.F0, u.F1, u.F3, u.F2),
        !.f33 = QD(u.F0, u.F3)]

\* normalize without lines 67-77
normalizeCachesOnly(s0) == rotationCaches(s0)

normalize(s0) ==
    Only({rotationCaches(u) : u \in {unitQuaternions(st) : st \in {s0}}})

\* a1*b1 + a2*b2 + a3*b3
Dot3(a1, b1, a2, b2, a3, b3) ==
    RAdd3(RMul(a1, b1), RMul(a2, b2), RMul(a3, b3))

\* lines 140-162: the first guess of U1, E and F.  u1 is s.U1 of line 141.
initialGuess(m, u1) ==
    LET track == m.WValid /\ RGt(u1, R(5))
        c == IF track THEN Sqrt(RDiv(RAdd(u1, m.W1), RMul(R(2), u1))) ELSE One
        d == IF track THEN Sqrt(RDiv(RSub(u1, m.W1), RMul(R(2), u1))) ELSE Zero
    IN  [NewState EXCEPT
            !.U1 = u1, !.E0 = c,
            !.E3 = IF track /\ RGt(m.W2, Zero) THEN RNeg(d) ELSE d,
            !.F0 = One,
            !.M = <<[op |-> "Initialize", WValid |-> m.WValid,
                     track |-> track]>>]

\* lines 166-170
initialField(m, st) ==
    IF m.MValid
    THEN [st EXCEPT
            !.N1 = Dot3(m.M1, st.e11, m.M2, st.e12, m.M3, st.e13),
            !.N2 = Dot3(m.M1, st.e21, m.M2, st.e22, m.M3, st.e23),
            !.N3 = Dot3(m.M1, st.e31, m.M2, st.e32, m.M3, st.e33)]
    ELSE st

Initialize(m) ==
    Only({initialField(m, st) :
            st \in {normalize(initialGuess(m, u1)) :
                      u1 \in {IF m.WValid THEN Hypot(m.W1, m.W2) ELSE Zero}}})

\* the 15 measurement scalars in the order of the innovation vector
MeasOrder ==
    <<"U1", "U2", "U3", "W1", "W2", "W3", "A1", "A2", "A3",
      "B1", "B2", "B3", "M1", "M2", "M3">>

\* lines 341-343: the specific force in the aircraft frame
aircraftAccel(n) ==
    <<RSub(RAdd(RNeg(n.Z1), RDiv(RMul(
          RSub(RMul(n.H2, n.U3), RMul(n.H3, n.U2)), Deg), G)), n.e31),
      RSub(RAdd(RNeg(n.Z2), RDiv(RMul(
          RSub(RMul(n.H3, n.U1), RMul(n.H1, n.U3)), Deg), G)), n.e32),
      RSub(RAdd(RNeg(n.Z3), RDiv(RMul(
          RSub(RMul(n.H1, n.U2), RMul(n.H2, n.U1)), Deg), G)), n.e33)>>

\* lines 353-355: the field in the aircraft frame, with L added
aircraftField(n) ==
    <<RAdd(Dot3(n.N1, n.e11, n.N2, n.e21, n.N3, n.e31), n.L1),
      RAdd(Dot3(n.N1, n.e12, n.N2, n.e22, n.N3, n.e32), n.L2),
      RAdd(Dot3(n.N1, n.e13, n.N2, n.e23, n.N3, n.e33), n.L3)>>

\* lines 329-360: the measurement a normalized state n predicts
predicted(n, a, mg) ==
    [UValid |-> TRUE, WValid |-> TRUE, SValid |-> TRUE, MValid |-> TRUE,
     W1 |-> RAdd(Dot3(n.e11, n.U1, n.e12, n.U2, n.e13, n.U3), n.V1),
     W2 |-> RAdd(Dot3(n.e21, n.U1, n.e22, n.U2, n.e23, n.U3), n.V2),
     W3 |-> RAdd(Dot3(n.e31, n.U1, n.e32, n.U2, n.e33, n.U3), n.V3),
     U1 |-> n.U1, U2 |-> n.U2, U3 |-> n.U3,
     A1 |-> RAdd(Dot3(a[1], n.f11, a[2], n.f21, a[3], n.f31), n.C1),
     A2 |-> RAdd(Dot3(a[1], n.f12, a[2], n.f22, a[3], n.f32), n.C2),
     A3 |-> RAdd(Dot3(a[1], n.f13, a[2], n.f23, a[3], n.f33), n.C3),
     B1 |-> RAdd(Dot3(n.H1, n.f11, n.H2, n.f21, n.H3, n.f31), n.D1),
     B2 |-> RAdd(Dot3(n.H1, n.f12, n.H2, n.f22, n.H3, n.f32), n.D2),
     B3 |-> RAdd(Dot3(n.H1, n.f13, n.H2, n.f23, n.H3, n.f33), n.D3),
     M1 |-> RAdd(Dot3(n.f11, mg[1], n.f21, mg[2], n.f31, mg[3]), n.L1),
     M2 |-> RAdd(Dot3(n.f12, mg[1], n.f22, mg[2], n.f32, mg[3]), n.L2),
     M3 |-> RAdd(Dot3(n.f13, mg[1], n.f23, mg[2], n.f33, mg[3]), n.L3),
     T |-> n.T]

\* PredictMeasurement normalizes the receiver (line 328): s is the receiver
\* after the call, m the measurement returned
PredictMeasurement(st) ==
    Only({[s |-> v[1], m |-> predicted(v[1], v[2], v[3])] :
            v \in {<<n, aircraftAccel(n), aircraftField(n)>> :
                     n \in {normalize(st)}}})

\* one assignment of lines 184-187 / 376-379: e + 0.5 * dt * x * Deg
increment(e, dt, x) == RAdd(e, RMul(RMul(RMul(Half, R(dt)), x), Deg))

\* lines 184 / 376, 185 / 377, 186 / 378, 187 / 379
propagateE0(st, dt) ==
    [st EXCEPT !.E0 = increment(@, dt,
        RSub(RSub(RNeg(RMul(st.H1, st.E1)), RMul(st.H2, st.E2)),
             RMul(st.H3, st.E3)))]
propagateE1(st, dt) ==
    [st EXCEPT !.E1 = increment(@, dt,
        RSub(RAdd(RMul(st.H1, st.E0), RMul(st.H2, st.E3)),
             RMul(st.H3, st.E2)))]
propagateE2(st, dt) ==
    [st EXCEPT !.E2 = increment(@, dt,
        RAdd(RAdd(RNeg(RMul(st.H1, st.E3)), RMul(st.H2, st.E0)),
             RMul(st.H3, st.E1)))]
propagateE3(st, dt) ==
    [st EXCEPT !.E3 = increment(@, dt,
        RAdd(RSub(RMul(st.H1, st.E2), RMul(st.H2, st.E1)),
             RMul(st.H3, st.E0)))]

\* lines 184-187 and 376-379: four assignments in sequence, each reading
\* the components already assigned
propagateE(st, dt) ==
    Only({propagateE3(c, dt) :
            c \in {propagateE2(b, dt) :
                     b \in {propagateE1(a, dt) :
                              a \in {propagateE0(st, dt)}}}})

\* calcJacobianState: the receiver after the call (E is incremented by
\* lines 376-379) and the Jacobian, which is a function of dt and of H
calcJacobianState(st, t) ==
    [s |-> propagateE(st, t - st.T),
     jac |-> [dt |-> t - st.T, H |-> <<st.H1, st.H2, st.H3>>]]

\* lines 180-182
propagateU(st, dt) ==
    [st EXCEPT
        !.U1 = RAdd(@, RDiv(RMul(R(dt), st.Z1), G)),
        !.U2 = RAdd(@, RDiv(RMul(R(dt), st.Z2), G)),
        !.U3 = RAdd(@, RDiv(RMul(R(dt), st.Z3), G))]

\* lines 178-194 after calcJacobianState returned j
predictFrom(j, t, dt) ==
    Only({[n EXCEPT !.T = t,
                    !.M = Append(@, [op |-> "Predict", f |-> j.jac,
                                     dt |-> dt])] :
            n \in {normalize(e) :
                     e \in {propagateE(u, dt) :
                              u \in {propagateU(j.s, dt)}}}})

Predict(st, t) ==
    Only({predictFrom(j, t, t - j.s.T) : j \in {calcJacobianState(st, t)}})

\* y of lines 201-216
innovation(m, z) == [i \in 1..15 |-> RSub(m[MeasOrder[i]], z[MeasOrder[i]])]

\* lines 220-278, the noise: the diagonal of m.M per validity flag
noiseDiagonal(m) ==
    [i \in 1..15 |->
        IF i = 1 THEN (IF m.UValid THEN R(2) ELSE R(Big))
        ELSE IF i \in 2..3 THEN R(25)
        ELSE IF i \in 4..6 THEN (IF m.WValid THEN <<1, 5>> ELSE R(Big))
        ELSE IF i \in 7..9 THEN (IF m.SValid THEN <<1, 5>> ELSE R(Big))
        ELSE IF i \in 10..12 THEN (IF m.SValid THEN R(1) ELSE R(Big))
        ELSE (IF m.MValid THEN R(5) ELSE R(Big))]

\* the gate without the y.Set of the else branch of WValid (lines 237-239)
gateKeepsGPS(m, y) ==
    [i \in 1..15 |->
        IF i = 1 THEN (IF m.UValid THEN y[i] ELSE Zero)
        ELSE IF i \in 2..6 THEN y[i]
        ELSE IF i \in 7..12 THEN (IF m.SValid THEN y[i] ELSE Zero)
        ELSE (IF m.MValid THEN y[i] ELSE Zero)]

\* the gate without the y.Set of the else branch of SValid (lines 253-258)
gateKeepsInertial(m, y) ==
    [i \in 1..15 |->
        IF i = 1 THEN (IF m.UValid THEN y[i] ELSE Zero)
        ELSE IF i \in 2..3 THEN y[i]
        ELSE IF i \in 4..6 THEN (IF m.WValid THEN y[i] ELSE Zero)
        ELSE IF i \in 7..12 THEN y[i]
        ELSE (IF m.MValid THEN y[i] ELSE Zero)]

\* lines 220-278, the innovation: entries zeroed per validity flag
gatedInnovation(m, y) ==
    [i \in 1..15 |->
        IF i = 1 THEN (IF m.UValid THEN y[i] ELSE Zero)
        ELSE IF i \in 2..3 THEN y[i]
        ELSE IF i \in 4..6 THEN (IF m.WValid THEN y[i] ELSE Zero)
        ELSE IF i \in 7..12 THEN (IF m.SValid THEN y[i] ELSE Zero)
        ELSE (IF m.MValid THEN y[i] ELSE Zero)]

\* matrix.Product(kk, y), row of state scalar f.  kk is given by its
\* non-zero entries: for each state scalar with a non-zero row, the
\* sequence of <<innovation index, value>> of that row
RECURSIVE rowSum(_, _, _)
rowSum(row, y, i) ==
    IF i > Len(row) THEN Zero
    ELSE RAdd(RMul(row[i][2], y[row[i][1]]), rowSum(row, y, i + 1))

gainRow(kk, y, f) == IF f \in DOMAIN kk THEN rowSum(kk[f], y, 1) ELSE Zero

\* lines 288-321: the state plus kk.y, with the time of the measurement
\* and the covariance (I - kk.h).M
corrected(st, m, y, kk) ==
    [f \in DOMAIN st |->
        IF f \in Scalars THEN RAdd(st[f], gainRow(kk, y, f))
        ELSE IF f = "T" THEN m.T
        ELSE IF f = "M" THEN Append(st.M, [op |-> "Update", kk |-> kk,
                                           at |-> ScalarsOf(st)])
        ELSE st[f]]

\* lines 281-322 with the test of the inversion error (line 282) moved
\* after line 320
correctThenTest(st, m, y, ok, kk) ==
    IF ok THEN normalize(corrected(st, m, y, kk)) ELSE [st EXCEPT !.T = m.T]

\* lines 281-322: ok is the outcome of ss.Inverse(), kk the gain computed
\* from the inverse, st the state PredictMeasurement left
correct(st, m, y, ok, kk) ==
    IF ~ok THEN st ELSE normalize(corrected(st, m, y, kk))

\* Update(m) from line 201 on; p is what PredictMeasurement returned and
\* left of the receiver at line 199.  The result is the state after the
\* call, with the gated innovation and the noise diagonal the call used.
Update(p, m, ok, kk) ==
    Only({[s |-> correct(p.s, m, y, ok, kk), y |-> y, R |-> noiseDiagonal(m)] :
            y \in {gatedInnovation(m, y0) : y0 \in {innovation(m, p.m)}}})

(***************************************************************************)
(* Inputs of the filter calls.                                             *)
(***************************************************************************)
\* validity flags: all valid, none valid, one group missing
FlagSets ==
    {[UValid |-> u, WValid |-> w, SValid |-> v, MValid |-> g] :
        u, w, v, g \in BOOLEAN} \cap
    {f \in [{"UValid", "WValid", "SValid", "MValid"} -> BOOLEAN] :
        Cardinality({k \in DOMAIN f : ~f[k]}) \in {0, 1, 4}}

\* sensor readings <<U, W, A, B, M, T>>
Readings ==
    {<<<<26, 1, 0>>, <<7, 24, 0>>, <<0, 0, -1>>, <<1, 0, 0>>, <<20, 0, -40>>, 2>>,
     <<<<25, 0, 0>>, <<8, 24, 0>>, <<1, 0, -1>>, <<0, 2, 0>>, <<0, 5, 0>>, 1>>}

Meas(f, r) ==
    [UValid |-> f.UValid, WValid |-> f.WValid, SValid |-> f.SValid,
     MValid |-> f.MValid,
     U1 |-> R(r[1][1]), U2 |-> R(r[1][2]), U3 |-> R(r[1][3]),
     W1 |-> R(r[2][1]), W2 |-> R(r[2][2]), W3 |-> R(r[2][3]),
     A1 |-> R(r[3][1]), A2 |-> R(r[3][2]), A3 |-> R(r[3][3]),
     B1 |-> R(r[4][1]), B2 |-> R(r[4][2]), B3 |-> R(r[4][3]),
     M1 |-> R(r[5][1]), M2 |-> R(r[5][2]), M3 |-> R(r[5][3]),
     T |-> r[6]]

UpdMeas == {Meas(f, r) : f \in FlagSets, r \in Readings}

\* Initialize: GPS missing; GPS track 7 east 24 north (25 kt); GPS track
\* 7 west 24 south; GPS at 5 kt, too slow for a heading
InitReadings ==
    {<<<<0, 0, 0>>, <<7, 24, 0>>, <<0, 0, -1>>, <<0, 0, 0>>, <<20, 0, -40>>, 0>>,
     <<<<0, 0, 0>>, <<-7, -24, 0>>, <<0, 0, -1>>, <<0, 0, 0>>, <<20, 0, -40>>, 0>>,
     <<<<0, 0, 0>>, <<3, 4, 0>>, <<0, 0, -1>>, <<0, 0, 0>>, <<20, 0, -40>>, 0>>}

InitFlags ==
    {[UValid |-> FALSE, WValid |-> w, SValid |-> TRUE, MValid |-> w] :
        w \in BOOLEAN}

InitMeas ==
    {m \in {Meas(f, r) : f \in InitFlags, r \in InitReadings} :
        m.WValid \/ m.W1 = R(7)}

\* times Predict is called with; State.T is 0 after Initialize
Times == {1, 2, -26}

\* A Kalman gain matrix.Product(s.M, matrix.Product(h.Transpose(), m2))
\* can return, by its non-zero entries.  The rows of Z, E, H and F are zero
\* in it, so that the quaternion norms stay perfect squares; the columns of
\* the magnetometer innovation are zero because rows 12-14 of h are.
Gain ==
    [f \in {"U1", "U2", "U3", "V1", "V2", "V3", "C1", "C2", "C3",
            "D1", "D2", "D3"} |->
        CASE f = "U1" -> <<<<1, Half>>, <<4, <<1, 4>>>>>>
          [] f = "U2" -> <<<<2, Half>>>>
          [] f = "U3" -> <<<<3, Half>>>>
          [] f = "V1" -> <<<<1, <<-1, 4>>>>, <<4, Half>>>>
          [] f = "V2" -> <<<<2, <<-1, 2>>>>, <<5, Half>>>>
          [] f = "V3" -> <<<<6, Half>>>>
          [] f = "C1" -> <<<<7, Half>>, <<10, <<1, 4>>>>>>
          [] f = "C2" -> <<<<8, Half>>>>
          [] f = "C3" -> <<<<9, Half>>>>
          [] f = "D1" -> <<<<10, Half>>>>
          [] f = "D2" -> <<<<11, Half>>>>
          [] f = "D3" -> <<<<12, Half>>>>]

Gains == {Gain}

NoInnovation == [i \in 1..15 |-> Zero]

(***************************************************************************)
(* The calls.  fpc records the last call: its inputs, the state before it  *)
(* and, for Update, the gated innovation and the noise diagonal.           *)
(***************************************************************************)
InitAHRS ==
    /\ InitMPU
    /\ \E m \in InitMeas :
         /\ s = Initialize(m)
         /\ fpc = [op |-> "Initialize", steps |-> 0, ok |-> TRUE, t |-> 0,
                   m |-> m, kk |-> <<>>, pre |-> NewState,
                   y |-> NoInnovation, R |-> NoInnovation,
                   afterSkip |-> FALSE]

CallPredict ==
    /\ fpc.steps < MaxSteps
    /\ \E t \in Times :
         /\ s' = Predict(s, t)
         /\ fpc' = [fpc EXCEPT !.op = "Predict", !.steps = @ + 1, !.ok = TRUE,
                               !.t = t, !.pre = s,
                               !.afterSkip = (fpc.op = "Update" /\ ~fpc.ok)]
    /\ UNCHANGED mpuVars

CallUpdate ==
    /\ fpc.steps < MaxSteps
    /\ \E p \in {PredictMeasurement(s)} :
       \E m \in UpdMeas, ok \in BOOLEAN, kk \in Gains :
       \E u \in {Update(p, m, ok, kk)} :
         /\ s' = u.s
         /\ fpc' = [op |-> "Update", steps |-> fpc.steps + 1, ok |-> ok,
                    t |-> m.T, m |-> m, kk |-> kk, pre |-> s,
                    y |-> u.y, R |-> u.R,
                    afterSkip |-> (fpc.op = "Update" /\ ~fpc.ok)]
    /\ UNCHANGED mpuVars

NextAHRS == CallPredict \/ CallUpdate

SpecAHRS == InitAHRS /\ [][NextAHRS]_vars

(***************************************************************************)
(* Part II: properties.                                                    *)
(***************************************************************************)
\* the validity flag that governs entry i of the innovation
GroupValid(m, i) ==
    IF i \in 1..3 THEN m.UValid
    ELSE IF i \in 4..6 THEN m.WValid
    ELSE IF i \in 7..12 THEN m.SValid
    ELSE m.MValid

AllInvalid(m) == ~m.UValid /\ ~m.WValid /\ ~m.SValid /\ ~m.MValid

\* the innovation of the last Update before the gate: measurement minus
\* prediction
RawInnovation == innovation(fpc.m, PredictMeasurement(fpc.pre).m)

\* the gain of the last Update applied to an innovation y moves the state
Moves(y) == \E f \in Scalars : gainRow(fpc.kk, y, f) # Zero

\* C7: the state timestamp T never decreases: no Predict(t) and no
\* Update(m) moves T backwards.
C7_TimeNeverDecreases == [][s'.T >= s.T]_vars

\* C8: an Update whose inversion failed leaves the 32 state scalars, T and
\* the covariance M as they were before the call, and the next Predict or
\* Update is accepted and takes effect.
C8_FailedInversionLeavesState ==
    /\ (fpc.op = "Update" /\ ~fpc.ok) =>
         /\ ScalarsOf(s) = ScalarsOf(fpc.pre)
         /\ s.T = fpc.pre.T
         /\ s.M = fpc.pre.M
         /\ fpc.steps < MaxSteps => (ENABLED CallPredict /\ ENABLED CallUpdate)
    /\ (fpc.afterSkip /\ fpc.op = "Predict") =>
         s.T = fpc.t /\ Len(s.M) = Len(fpc.pre.M) + 1
    /\ (fpc.afterSkip /\ fpc.op = "Update" /\ fpc.ok) =>
         s.T = fpc.m.T /\ Len(s.M) = Len(fpc.pre.M) + 1

\* an Update failed to invert although the measurement differed from the
\* prediction, carried another time than the state, and the gain would
\* have moved the state
C8_Witness ==
    /\ fpc.op = "Update" /\ ~fpc.ok
    /\ fpc.m.T # fpc.pre.T
    /\ Moves(fpc.y)

rotationOf(q0, q1, q2, q3) ==
    << QD(q0, q1),         QP(q0, q3, q1, q2), QM(q0, q2, q1, q3),
       QM(q0, q3, q2, q1), QD(q0, q2),         QP(q0, q1, q2, q3),
       QP(q0, q2, q3, q1), QM(q0, q1, q3, q2), QD(q0, q3) >>

\* the cached matrices of a state, row by row
eCache(st) ==
    << st.e11, st.e12, st.e13, st.e21, st.e22, st.e23,
       st.e31, st.e32, st.e33 >>
fCache(st) ==
    << st.f11, st.f12, st.f13, st.f21, st.f22, st.f23,
       st.f31, st.f32, st.f33 >>

\* C11: after normalize each of e11..e33 is the rotation-matrix entry of
\* the current E, by the formula that gives f11..f33 from F; no cached
\* entry is stale or left at zero.
C11_CachesMatchQuaternions ==
    /\ fCache(s) = rotationOf(s.F0, s.F1, s.F2, s.F3)
    /\ eCache(s) = rotationOf(s.E0, s.E1, s.E2, s.E3)

\* row i of a matrix r given row by row times row j of it
RowDot(r, i, j) ==
    Dot3(r[3*i - 2], r[3*j - 2], r[3*i - 1], r[3*j - 1], r[3*i], r[3*j])

\* the determinant of a matrix given row by row
Det3(r) ==
    RAdd3(RMul(r[1], RSub(RMul(r[5], r[9]), RMul(r[6], r[8]))),
          RMul(r[2], RSub(RMul(r[6], r[7]), RMul(r[4], r[9]))),
          RMul(r[3], RSub(RMul(r[4], r[8]), RMul(r[5], r[7]))))

\* r * transpose(r) is the identity and det(r) = +1
ProperRotation(r) ==
    /\ \A i, j \in 1..3 : RowDot(r, i, j) = (IF i = j THEN One ELSE Zero)
    /\ Det3(r) = One

\* C12: for unit E and unit F the cached 3x3 matrices e and f are proper
\* rotations: each times its transpose is the identity and each has
\* determinant +1.
C12_CachesAreRotations ==
    /\ ProperRotation(fCache(s))
    /\ ProperRotation(eCache(s))

(***************************************************************************)
(* Part III: one call of the filter on a state drawn from a bounded set.   *)
(* Besides the states Initialize returns, the set holds states with        *)
(* angular rate, acceleration, sensor misalignment and sensor biases, as   *)
(* the gain of a real Update produces them.                                *)
(***************************************************************************)
\* a*a + b*b + c*c + d*d
NormSq(a, b, c, d) == RAdd4(RMul(a, a), RMul(b, b), RMul(c, c), RMul(d, d))

\* n is the square of a natural number
IsSquare(n) == \E r \in 0..(IF n < 46340 THEN n ELSE 46340) : r * r = n

\* math.Sqrt of lines 67 and 73 returns a fraction, not zero, for both
\* quaternions of st
ExactNorms(st) ==
    \A q \in {NormSq(st.E0, st.E1, st.E2, st.E3),
              NormSq(st.F0, st.F1, st.F2, st.F3)} :
        q[1] > 0 /\ IsSquare(q[1]) /\ IsSquare(q[2])

\* an angular rate of 2 rad/s, in the degrees per second of State.H
Spin == RDiv(R(2), Deg)

\* unit quaternions for E: level north, level south, the GPS track 7 east
\* 24 north, and a third of a turn about the diagonal
Attitudes ==
    {<<One, Zero, Zero, Zero>>, <<Zero, Zero, Zero, One>>,
     <<Rat(4, 5), Zero, Zero, Rat(-3, 5)>>, <<Half, Half, Half, Half>>}

\* unit quaternions for F: sensor aligned, rolled, axes permuted
Mountings ==
    {<<One, Zero, Zero, Zero>>, <<Rat(4, 5), Rat(3, 5), Zero, Zero>>,
     <<Half, Half, Half, Half>>}

\* H: at rest, or turning about one axis
Rates ==
    {<<Zero, Zero, Zero>>, <<Spin, Zero, Zero>>, <<Zero, Spin, Zero>>,
     <<Zero, Zero, RNeg(Spin)>>}

\* the other scalars <<U, Z, N, V, C, D, L>>: accelerating with biases and
\* no field; cruising with a field; at rest with field and biases
Loads ==
    {<<<<0, 0, 0>>, <<1, 0, -1>>, <<0, 0, 0>>, <<1, 0, 0>>, <<0, 1, 0>>,
       <<1, 0, 2>>, <<3, -2, 5>>>>,
     <<<<25, 1, 0>>, <<0, 0, 0>>, <<20, 0, -40>>, <<0, 0, 0>>, <<0, 0, 0>>,
       <<0, 0, 0>>, <<0, 0, 0>>>>,
     <<<<0, 0, 0>>, <<0, 0, 0>>, <<20, 0, -40>>, <<0, 1, 0>>, <<0, 0, 0>>,
       <<0, 2, 0>>, <<3, -2, 5>>>>}

\* the State with these scalars, its caches as normalize leaves them, at
\* time 0 with a covariance that is not followed
StateOf(e, f, h, l) ==
    normalize([NewState EXCEPT
        !.E0 = e[1], !.E1 = e[2], !.E2 = e[3], !.E3 = e[4],
        !.F0 = f[1], !.F1 = f[2], !.F2 = f[3], !.F3 = f[4],
        !.H1 = h[1], !.H2 = h[2], !.H3 = h[3],
        !.U1 = R(l[1][1]), !.U2 = R(l[1][2]), !.U3 = R(l[1][3]),
        !.Z1 = R(l[2][1]), !.Z2 = R(l[2][2]), !.Z3 = R(l[2][3]),
        !.N1 = R(l[3][1]), !.N2 = R(l[3][2]), !.N3 = R(l[3][3]),
        !.V1 = R(l[4][1]), !.V2 = R(l[4][2]), !.V3 = R(l[4][3]),
        !.C1 = R(l[5][1]), !.C2 = R(l[5][2]), !.C3 = R(l[5][3]),
        !.D1 = R(l[6][1]), !.D2 = R(l[6][2]), !.D3 = R(l[6][3]),
        !.L1 = R(l[7][1]), !.L2 = R(l[7][2]), !.L3 = R(l[7][3]),
        !.M = <<[op |-> "State"]>>])

\* the drawn states: a turning aircraft has no ground speed in them
DrawnStates ==
    {StateOf(e, f, h, l) : e \in Attitudes, f \in Mountings,
                           h \in Rates,
                           l \in Loads} \
    {StateOf(e, f, h, l) : e \in Attitudes, f \in Mountings,
                           h \in Rates \ {<<Zero, Zero, Zero>>},
                           l \in {k \in Loads : k[1] # <<0, 0, 0>>}}

\* a gain with rows for E and F: the innovation of the GPS speed U1 turns
\* E, that of U2 turns F
GainAttitude ==
    [f \in {"E1", "F2", "D1"} |->
        CASE f = "E1" -> <<<<1, <<3, 4>>>>>>
          [] f = "F2" -> <<<<2, <<3, 4>>>>>>
          [] f = "D1" -> <<<<10, Half>>>>]

\* times of the single Predict
StepTimes == {1, 2}

\* lines 178-187: what Predict hands to normalize on line 188
propagated(st, t) ==
    Only({propagateE(u, t - st.T) :
            u \in {propagateU(j.s, t - st.T) :
                     j \in {calcJacobianState(st, t)}}})

InitStep ==
    /\ InitMPU
    /\ \/ \E m \in InitMeas :
            /\ s = Initialize(m)
            /\ fpc = [op |-> "Initialize", ok |-> TRUE, t |-> 0, m |-> m,
                      kk |-> <<>>, pre |-> NewState, y |-> NoInnovation,
                      R |-> NoInnovation, z |-> <<>>]
       \/ /\ s \in DrawnStates
          /\ fpc = [op |-> "State", ok |-> TRUE, t |-> 0, m |-> <<>>,
                    kk |-> <<>>, pre |-> NewState, y |-> NoInnovation,
                    R |-> NoInnovation, z |-> <<>>]

\* Predict(t) on the drawn state
StepPredict ==
    /\ fpc.op \in {"Initialize", "State"}
    /\ \E t \in StepTimes :
         /\ ExactNorms(propagated(s, t))
         /\ s' = Predict(s, t)
         /\ fpc' = [fpc EXCEPT !.op = "Predict", !.t = t, !.pre = s]
    /\ UNCHANGED mpuVars

\* PredictMeasurement() on the drawn state; z is the measurement returned
StepPredictMeasurement ==
    /\ fpc.op \in {"Initialize", "State"}
    /\ \E p \in {PredictMeasurement(s)} :
         /\ s' = p.s
         /\ fpc' = [fpc EXCEPT !.op = "PredictMeasurement", !.pre = s,
                               !.z = p.m]
    /\ UNCHANGED mpuVars

\* Update(m) on the drawn state
StepUpdate ==
    /\ fpc.op \in {"Initialize", "State"}
    /\ \E p \in {PredictMeasurement(s)} :
       \E m \in UpdMeas, ok \in BOOLEAN, kk \in Gains \cup {GainAttitude} :
         /\ ExactNorms(corrected(p.s, m,
                           gatedInnovation(m, innovation(m, p.m)), kk))
         /\ \E u \in {Update(p, m, ok, kk)} :
              /\ s' = u.s
              /\ fpc' = [op |-> "Update", ok |-> ok, t |-> m.T, m |-> m,
                         kk |-> kk, pre |-> s, y |-> u.y, R |-> u.R,
                         z |-> p.m]
    /\ UNCHANGED mpuVars

NextStep == StepPredict \/ StepPredictMeasurement \/ StepUpdate

SpecStep == InitStep /\ [][NextStep]_vars

(***************************************************************************)
(* Part III: properties.                                                   *)
(***************************************************************************)
\* the quaternion of a state
QuatE(st) == <<st.E0, st.E1, st.E2, st.E3>>
QuatF(st) == <<st.F0, st.F1, st.F2, st.F3>>

\* the right-hand sides of lines 184-187, each evaluated on the same
\* state st: E + (dt/2) * Omega(H * Deg) * E
incrementedOnce(st, dt) ==
    <<propagateE0(st, dt).E0, propagateE1(st, dt).E1,
      propagateE2(st, dt).E2, propagateE3(st, dt).E3>>

\* a is b divided by a positive number
SameDirection(a, b) ==
    /\ \A i, j \in 1..4 : RMul(a[i], b[j]) = RMul(a[j], b[i])
    /\ RGt(RAdd4(RMul(a[1], b[1]), RMul(a[2], b[2]),
                 RMul(a[3], b[3]), RMul(a[4], b[4])), Zero)

\* C13: Predict(t) applies the quaternion increment once, every component
\* computed from the E and H the call started with, and normalizes it;
\* calcJacobianState, called first, modifies no state scalar.
C13_PredictIncrementsOnce ==
    fpc.op = "Predict" =>
      /\ ScalarsOf(calcJacobianState(fpc.pre, fpc.t).s) = ScalarsOf(fpc.pre)
      /\ SameDirection(QuatE(s),
                       incrementedOnce(fpc.pre, fpc.t - fpc.pre.T))

\* the state scalars and caches Predict has no assignment for
Unpredicted ==
    {"Z1", "Z2", "Z3", "H1", "H2", "H3", "N1", "N2", "N3",
     "V1", "V2", "V3", "C1", "C2", "C3", "F0", "F1", "F2", "F3",
     "D1", "D2", "D3", "L1", "L2", "L3",
     "f11", "f12", "f13", "f21", "f22", "f23", "f31", "f32", "f33"}

\* C14: Predict changes only U, E (with the e cache), T and M; Z, H, N, V,
\* C, F, D and L have the same values after the call as before it, for
\* every t and every state with unit F.
C14_PredictKeepsTheRest ==
    fpc.op = "Predict" => \A f \in Unpredicted : s[f] = fpc.pre[f]

\* a Predict moved U, E and T of a state with acceleration, angular rate,
\* biases and a sensor that is not aligned, and the norm that normalize
\* divided E by was not 1
C14_Witness ==
    /\ fpc.op = "Predict"
    /\ s.U1 # fpc.pre.U1 /\ QuatE(s) # QuatE(fpc.pre) /\ s.T # fpc.pre.T
    /\ NormSq(propagated(fpc.pre, fpc.t).E0, propagated(fpc.pre, fpc.t).E1,
              propagated(fpc.pre, fpc.t).E2, propagated(fpc.pre, fpc.t).E3)
         # One
    /\ fpc.pre.F1 # Zero /\ fpc.pre.Z1 # Zero /\ fpc.pre.H1 # Zero
    /\ fpc.pre.L1 # Zero /\ fpc.pre.D1 # Zero /\ fpc.pre.C2 # Zero

\* Omega(h): the coefficient of E[j] in the right-hand side of the
\* assignment to E[i] on lines 184-187, as lines 381-395 list them
Omega(h) ==
    << <<Zero,  RNeg(h[1]), RNeg(h[2]), RNeg(h[3])>>,
       <<h[1],  Zero,       RNeg(h[3]), h[2]>>,
       <<h[2],  h[3],       Zero,       RNeg(h[1])>>,
       <<h[3],  RNeg(h[2]), h[1],       Zero>> >>

\* the coefficient of H[j] in the right-hand side of the assignment to
\* E[i] on lines 184-187
OmegaByRate(e) ==
    << <<RNeg(e[2]), RNeg(e[3]), RNeg(e[4])>>,
       <<e[1],       e[4],       RNeg(e[3])>>,
       <<RNeg(e[4]), e[1],       e[2]>>,
       <<e[3],       RNeg(e[2]), e[1]>> >>

\* lines 368-395: entry (i, j) of the matrix calcJacobianState returns,
\* rows and columns numbered from 0 in the order of StateOrder
jacobianEntry(jac, i, j) ==
    IF <<i, j>> \in {<<0, 3>>, <<1, 4>>, <<2, 5>>} THEN R(jac.dt)
    ELSE IF i \in 6..9 /\ j \in 6..9 /\ i # j
         THEN increment(Zero, jac.dt, Omega(jac.H)[i - 5][j - 5])
    ELSE IF i = j THEN One
    ELSE Zero

\* the derivative of lines 180-187 by the state: entry (i, j) is the
\* identity plus the derivative of the increment of scalar i by scalar j
propagationPartial(st, dt, i, j) ==
    IF <<i, j>> \in {<<0, 3>>, <<1, 4>>, <<2, 5>>} THEN RDiv(R(dt), G)
    ELSE IF i \in 6..9 /\ j \in 6..9 /\ i # j
         THEN increment(Zero, dt,
                        Omega(<<st.H1, st.H2, st.H3>>)[i - 5][j - 5])
    ELSE IF i \in 6..9 /\ j \in 10..12
         THEN increment(Zero, dt, OmegaByRate(QuatE(st))[i - 5][j - 9])
    ELSE IF i = j THEN One
    ELSE Zero

\* C15: the Jacobian Predict uses for the covariance is the identity plus
\* the partial derivatives of the propagation: dU/dZ of U + dt*Z/G, dE/dE
\* and dE/dH (rows 6-9, columns 10-12) of the E update; every other
\* off-diagonal entry is zero.
C15_JacobianIsThePartials ==
    fpc.op = "Predict" =>
        \A i, j \in 0..31 :
            jacobianEntry(s.M[Len(s.M)].f, i, j) =
                propagationPartial(fpc.pre, fpc.t - fpc.pre.T, i, j)

\* C16: the predicted magnetometer reading is N rotated by E and then by
\* F with the bias L added once: with N = 0 and F the identity rotation,
\* PredictMeasurement returns (M1, M2, M3) = (L1, L2, L3).
C16_FieldBiasAddedOnce ==
    (/\ fpc.op = "PredictMeasurement"
     /\ <<fpc.pre.N1, fpc.pre.N2, fpc.pre.N3>> = <<Zero, Zero, Zero>>
     /\ QuatF(fpc.pre) = <<One, Zero, Zero, Zero>>) =>
        <<fpc.z.M1, fpc.z.M2, fpc.z.M3>> = <<s.L1, s.L2, s.L3>>

\* Situation.control: the rates h of the aircraft frame as the sensor
\* sees them, sensor[i] = f[i][1]*h1 + f[i][2]*h2 + f[i][3]*h3, with the
\* f of the state's F
controlRates(st, h) ==
    <<Dot3(h[1], st.f11, h[2], st.f12, h[3], st.f13),
      Dot3(h[1], st.f21, h[2], st.f22, h[3], st.f23),
      Dot3(h[1], st.f31, h[2], st.f32, h[3], st.f33)>>

\* a sensor-frame vector b taken to the aircraft frame by the convention
\* of line 90: aircraft[j] = f[1][j]*b1 + f[2][j]*b2 + f[3][j]*b3
toAircraft(st, b) ==
    <<Dot3(st.f11, b[1], st.f21, b[2], st.f31, b[3]),
      Dot3(st.f12, b[1], st.f22, b[2], st.f32, b[3]),
      Dot3(st.f13, b[1], st.f23, b[2], st.f33, b[3])>>

\* the predicted gyro reading less the gyro bias
UnbiasedRates == <<RSub(fpc.z.B1, s.D1), RSub(fpc.z.B2, s.D2),
                   RSub(fpc.z.B3, s.D3)>>

\* C17: the predicted gyro reading is H rotated from the aircraft frame to
\* the sensor frame, plus D: taking B - D back to the aircraft frame with
\* aircraft[j] = sum of f[i][j] * (B - D)[i] returns (H1, H2, H3), and
\* B - D is the rotation of H that the simulator's control() computes.
C17_GyroRotatesIntoSensorFrame ==
    fpc.op = "PredictMeasurement" =>
      /\ toAircraft(s, UnbiasedRates) = <<s.H1, s.H2, s.H3>>
      /\ UnbiasedRates = controlRates(s, <<s.H1, s.H2, s.H3>>)

\* C18: after Initialize(m) with m.MValid, PredictMeasurement on the
\* fresh state returns the magnetometer reading of m, for a heading taken
\* from the GPS track and for the default heading.
C18_InitialFieldReproducesReading ==
    (/\ fpc.op = "PredictMeasurement"
     /\ fpc.pre.M[1].op = "Initialize"
     /\ fpc.m.MValid) =>
        <<fpc.z.M1, fpc.z.M2, fpc.z.M3>> = <<fpc.m.M1, fpc.m.M2, fpc.m.M3>>

\* C19: after Initialize and after every Predict and Update, a skipped
\* Update included, E and F have norm 1.
C19_QuaternionsStayUnit ==
    /\ NormSq(s.E0, s.E1, s.E2, s.E3) = One
    /\ NormSq(s.F0, s.F1, s.F2, s.F3) = One

\* an Update on a state fresh from Initialize whose gain moved E and F off
\* the unit sphere before line 322 normalized them
C19_Witness ==
    /\ fpc.op = "Update" /\ fpc.ok /\ fpc.pre.M[1].op = "Initialize"
    /\ QuatE(s) # QuatE(fpc.pre) /\ QuatF(s) # QuatF(fpc.pre)
    /\ gainRow(fpc.kk, fpc.y, "E1") # Zero
    /\ gainRow(fpc.kk, fpc.y, "F2") # Zero

(***************************************************************************)
(* Part II: the covariance.                                                *)
(***************************************************************************)
\* Entry [10][10] of the covariance, the variance of H1, for a covariance
\* produced by Initialize and Predict calls only.  Initialize sets it to
\* 5 * 5 (lines 112, 120).  calcJacobianState sets no entry in row 10, so
\* row 10 of f is that of the identity and line 194 adds the entry
\* [10][10] of N, 1 * 1 (lines 127, 135), times dt.
RECURSIVE rateVariance(_)
rateVariance(cov) ==
    IF Len(cov) = 1 THEN 5 * 5
    ELSE rateVariance(SubSeq(cov, 1, Len(cov) - 1)) + 1 * 1 * cov[Len(cov)].dt

\* no Update contributed to the covariance
OnlyPredicted(cov) == \A k \in 2..Len(cov) : cov[k].op = "Predict"

\* C20: after any sequence of Predict and Update calls from Initialize the
\* covariance M has no negative diagonal entry (and is symmetric).
C20_CovarianceDiagonalNotNegative ==
    OnlyPredicted(s.M) => rateVariance(s.M) >= 0

(***************************************************************************)
(* Part I: further properties of the reader.                               *)
(***************************************************************************)
\* C27: when the bus word read fails, i2cRead2 returns a non-nil error and
\* the value 0 without crashing the calling thread, so that the caller's
\* error branch is reached.
C27_FailedReadReturnsError ==
    [][(~hist.busFail /\ hist'.busFail) => (~panicked' /\ rl'.err)]_vars

\* C28: a successful gyro/accel tick increases each of the sums g1..g3,
\* a1..a3 by the integer difference raw reading - stored bias, without
\* wraparound, and n by 1.
C28_SumsGrowByDifference ==
    [][(rpc = "gyroaccel" /\ rpc' = "mag" /\ ~rl'.err) =>
          /\ acc'.g1 = acc.g1 + (rl'.g1 - bias.g01)
          /\ acc'.g2 = acc.g2 + (rl'.g2 - bias.g02)
          /\ acc'.g3 = acc.g3 + (rl'.g3 - bias.g03)
          /\ acc'.a1 = acc.a1 + (rl'.a1 - bias.a01)
          /\ acc'.a2 = acc.a2 + (rl'.a2 - bias.a02)
          /\ acc'.a3 = acc.a3 + (rl'.a3 - bias.a03)
          /\ acc'.n = acc.n + 1]_vars

\* C29: a magnetometer sample is added to m1..m3, and nm incremented, only
\* if its status word has the data-ready bit and no data-overrun bit and
\* its trailing status byte has no overflow bit.
C29_OnlyReadySamplesSummed ==
    [][(rpc = "mag" /\ acc'.nm = acc.nm + 1) =>
          /\ HasBit(rl'.m1 % 256, AKM_DATA_READY)
          /\ ~HasBit(rl'.m1 % 256, AKM_DATA_OVERRUN)
          /\ ~magOverflow(rl')]_vars

\* C21: after CloseMPU is called the reader finishes at most the bus
\* transaction in progress and stops: it starts no further tick of bus
\* reads and adds nothing more to the accumulators.
C21_ClosedReaderStops ==
    hist.closed =>
      /\ rpc \in {"gyroaccel", "mag"} => ticks = hist.closeTicks
      /\ hist.closeIdle => hist.tot = hist.closeTot

\* C22: once the reader runs, no bus transaction of a public method falls
\* inside the reader's sequence of register reads and writes of one tick:
\* none is issued between the reader's accelerometer reads and its
\* magnetometer writes and reads.
C22_BusAccessSerialized ==
    hist.wroteAt # "mag"

(***************************************************************************)
(* Part IV  src/sim/ahrs_sim.go : the simulator's scenario queries and its *)
(* conversions between Tait-Bryan angles and quaternions.                  *)
(*                                                                         *)
(* In the specification SpecSim the variable s is the receiver of the      *)
(* queries, the Situation, and fpc is the last call with its result.  The  *)
(* queries are functions of the scenario and of t alone, so one call is    *)
(* made from each scenario, followed by FromQuaternion of the quaternion   *)
(* it returned, as main does with the interpolated attitude.               *)
(*                                                                         *)
(* An angle is the record [quarter, half]: quarter whole quarter turns     *)
(* (multiples of pi/2) plus the angle whose HALF has cosine half[1] and     *)
(* sine half[2], both fractions, half[1]^2 + half[2]^2 = 1.  math.Cos and  *)
(* math.Sin of half an angle are then exact whenever quarter is even.      *)
(* math.Atan2(y, x) is kept as the pair of its arguments, which fixes its  *)
(* value in (-pi, pi]; math.Asin(v) is kept as v, which fixes its value in *)
(* [-pi/2, pi/2].                                                          *)
(***************************************************************************)
Angle(quarter, cs, sn) == [quarter |-> quarter, half |-> <<cs, sn>>]

\* math.Cos(a / 2) and math.Sin(a / 2), for an even number of quarter turns
HalfCos(a) ==
    Only({IF k = 0 THEN a.half[1] ELSE IF k = 1 THEN RNeg(a.half[2])
          ELSE IF k = 2 THEN RNeg(a.half[1]) ELSE a.half[2] :
          k \in {IF a.quarter % 2 = 0 THEN (a.quarter \div 2) % 4 ELSE Only({})}})
HalfSin(a) ==
    Only({IF k = 0 THEN a.half[2] ELSE IF k = 1 THEN a.half[1]
          ELSE IF k = 2 THEN RNeg(a.half[2]) ELSE RNeg(a.half[1]) :
          k \in {IF a.quarter % 2 = 0 THEN (a.quarter \div 2) % 4 ELSE Only({})}})

\* phi = -phi
negated(a) == [quarter |-> -a.quarter, half |-> <<a.half[1], RNeg(a.half[2])>>]
\* psi = psi - pi/2
lessQuarterTurn(a) == [a EXCEPT !.quarter = @ - 1]

RMul3(x, y, z) == RMul(RMul(x, y), z)

\* the products of lines 47-51 with the signs of the aerospace (yaw, pitch,
\* roll) sequence
quaternionOfHalvesZYX(cphi, sphi, ctheta, stheta, cpsi, spsi) ==
    [q0 |-> RAdd(RMul3(cphi, ctheta, cpsi), RMul3(sphi, stheta, spsi)),
     q1 |-> RSub(RMul3(sphi, ctheta, cpsi), RMul3(cphi, stheta, spsi)),
     q2 |-> RAdd(RMul3(cphi, stheta, cpsi), RMul3(sphi, ctheta, spsi)),
     q3 |-> RSub(RMul3(cphi, ctheta, spsi), RMul3(sphi, stheta, cpsi))]

\* the products of the half-angle cosines and sines, ToQuaternion lines 47-51
quaternionOfHalves(cphi, sphi, ctheta, stheta, cpsi, spsi) ==
    [q0 |-> RSub(RMul3(cphi, ctheta, cpsi), RMul3(sphi, stheta, spsi)),
     q1 |-> RAdd(RMul3(sphi, ctheta, cpsi), RMul3(cphi, stheta, spsi)),
     q2 |-> RSub(RMul3(cphi, stheta, cpsi), RMul3(sphi, ctheta, spsi)),
     q3 |-> RAdd(RMul3(cphi, ctheta, spsi), RMul3(sphi, stheta, cpsi))]

ToQuaternion(phi, theta, psi) ==
    Only({quaternionOfHalves(HalfCos(a[1]), HalfSin(a[1]),
                             HalfCos(a[2]), HalfSin(a[2]),
                             HalfCos(a[3]), HalfSin(a[3])) :
          a \in {<<negated(phi), theta, lessQuarterTurn(psi)>>}})

\* math.Atan2(y, x) < -pi/2 - 1e-4: the direction (x, y) lies in the third
\* quadrant, more than 1e-4 rad past the negative y axis.  tan(1e-4) is
\* 1e-4 to twelve places.
Tolerance == <<1, 10000>>
belowTolerance(y, x) ==
    /\ RGt(Zero, y)
    /\ RGt(Zero, x)
    /\ RGt(RDiv(x, y), Tolerance)

\* psi := pi/2 + math.Atan2(y, x); if psi < -1e-4 { psi += 2 * pi }
\* the value is pi/2 + atan2(y, x) + 2 pi (if wrapped)
wrappedHeading(y, x) == [y |-> y, x |-> x, wrapped |-> belowTolerance(y, x)]

FromQuaternion(q0, q1, q2, q3) ==
    [phi |-> [y |-> RMul(R(-2), RSub(RMul(q0, q1), RMul(q2, q3))),
              x |-> RAdd(RSub(RSub(RMul(q0, q0), RMul(q1, q1)), RMul(q2, q2)),
                         RMul(q3, q3))],
     theta |-> RDiv(RMul(R(2), RAdd(RMul(q0, q2), RMul(q3, q1))),
                    Norm4(q0, q1, q2, q3)),
     psi |-> wrappedHeading(
                 RMul(R(2), RSub(RMul(q0, q3), RMul(q1, q2))),
                 RSub(RSub(RAdd(RMul(q0, q0), RMul(q1, q1)), RMul(q2, q2)),
                      RMul(q3, q3)))]
\* a[i] of a Go slice
at(a, i) == a[i + 1]

\* t < s.t[0] || t > s.t[len(s.t)-1], with the end points rejected too
outOfRangeOpen(sit, t) ==
    \/ ~RGt(t, at(sit.t, 0))
    \/ ~RGt(at(sit.t, Len(sit.t) - 1), t)

\* t < s.t[0] || t > s.t[len(s.t)-1]
outOfRange(sit, t) ==
    \/ RGt(at(sit.t, 0), t)
    \/ RGt(t, at(sit.t, Len(sit.t) - 1))

\* sort.SearchFloat64s(a, x): the smallest index i with a[i] >= x, len(a)
\* if there is none
SearchFloat64s(a, x) ==
    Only({i \in 0..Len(a) :
            /\ (i = Len(a) \/ ~RGt(x, at(a, i)))
            /\ \A j \in 0..(i - 1) : RGt(x, at(a, j))})

\* ix := 0; if t > s.t[0] { ix = sort.SearchFloat64s(s.t, t) - 1 }
keyframeIndex(sit, t) ==
    IF RGt(t, at(sit.t, 0)) THEN SearchFloat64s(sit.t, t) - 1 ELSE 0

\* the weight of the keyframe on the right
fractionFromLeft(sit, t, ix) ==
    RDiv(RSub(t, at(sit.t, ix)), RSub(at(sit.t, ix + 1), at(sit.t, ix)))

\* f := (s.t[ix+1] - t) / (s.t[ix+1] - s.t[ix])
fraction(sit, t, ix) ==
    RDiv(RSub(at(sit.t, ix + 1), t), RSub(at(sit.t, ix + 1), at(sit.t, ix)))

\* f*x[ix] + (1-f)*x[ix+1]
lerp(f, x, ix) ==
    RAdd(RMul(f, at(x, ix)), RMul(RSub(One, f), at(x, ix + 1)))

\* f*a[ix] + (1-f)*a[ix+1] for an attitude angle; the scenarios hold their
\* attitude, and the weighted mean of two equal angles is that angle
lerpAngle(f, a, ix) ==
    IF at(a, ix) = at(a, ix + 1) THEN at(a, ix) ELSE Only({})

\* uint32(t*1000 + 0.5), t >= 0
millis(t) == (2000 * t[1] + t[2]) \div (2 * t[2])

SimFields ==
    {"U1", "U2", "U3", "E0", "E1", "E2", "E3", "F0", "F1", "F2", "F3",
     "V1", "V2", "V3", "M1", "M2", "M3"}

\* ahrs.State{} as the simulator uses it
ZeroSimState == [f \in SimFields \cup {"T"} |-> IF f = "T" THEN 0 ELSE Zero]

\* the State literal of interpolate, from the weight f and the quaternions
interpolated(sit, t, ix, f, e, ff) ==
    Only({[U1 |-> lerp(f, sit.u1, ix),
           U2 |-> lerp(f, sit.u2, ix),
           U3 |-> lerp(f, sit.u3, ix),
           E0 |-> RDiv(e.q0, n[1]), E1 |-> RDiv(e.q1, n[1]),
           E2 |-> RDiv(e.q2, n[1]), E3 |-> RDiv(e.q3, n[1]),
           F0 |-> RDiv(ff.q0, n[2]), F1 |-> RDiv(ff.q1, n[2]),
           F2 |-> RDiv(ff.q2, n[2]), F3 |-> RDiv(ff.q3, n[2]),
           V1 |-> lerp(f, sit.v1, ix),
           V2 |-> lerp(f, sit.v2, ix),
           V3 |-> lerp(f, sit.v3, ix),
           M1 |-> lerp(f, sit.m1, ix),
           M2 |-> lerp(f, sit.m2, ix),
           M3 |-> lerp(f, sit.m3, ix),
           T |-> millis(t)] :
          n \in {<<Norm4(e.q0, e.q1, e.q2, e.q3),
                   Norm4(ff.q0, ff.q1, ff.q2, ff.q3)>>}})

interpolateAt(sit, t, ix, f) ==
    Only({interpolated(sit, t, ix, f, q[1], q[2]) :
          q \in {<<ToQuaternion(lerpAngle(f, sit.phi, ix),
                                lerpAngle(f, sit.theta, ix),
                                lerpAngle(f, sit.psi, ix)),
                   ToQuaternion(lerpAngle(f, sit.phi0, ix),
                                lerpAngle(f, sit.theta0, ix),
                                lerpAngle(f, sit.psi0, ix))>>}})

\* (ahrs.State, error) of s.interpolate(t)
interpolate(sit, t) ==
    IF outOfRange(sit, t)
    THEN [err |-> TRUE, x |-> ZeroSimState]
    ELSE Only({[err |-> FALSE,
                x |-> Only({interpolateAt(sit, t, ix, f) :
                            f \in {fraction(sit, t, ix)}})] :
               ix \in {keyframeIndex(sit, t)}})

ddt == <<1, 1000>>

\* t0, t1 of derivative
derivativeWindow(sit, t) ==
    Only({IF RGt(RAdd(t, ddt), last) THEN <<RSub(last, ddt), last>>
                                     ELSE <<t, RAdd(t, ddt)>> :
          last \in {at(sit.t, Len(sit.t) - 1)}})

\* (ahrs.State, error) of s.derivative(t); the errors of the two
\* interpolations are dropped
derivative(sit, t) ==
    IF outOfRange(sit, t)
    THEN [err |-> TRUE, x |-> ZeroSimState]
    ELSE Only({[err |-> FALSE,
                x |-> [f \in SimFields \cup {"T"} |->
                         IF f = "T" THEN millis(t)
                         ELSE RDiv(RSub(p[2].x[f], p[1].x[f]), ddt)]] :
               p \in {<<interpolate(sit, w[1]), interpolate(sit, w[2])>> :
                      w \in {derivativeWindow(sit, t)}}})


\* the fragments f11..f33, the rates h1..h3 and the specific forces y1..y3
\* of control, from the state x and its time derivative dx
controlFragments(x, dx) ==
    Only({[f11 |-> QD(x.F0, x.F1),
           f12 |-> QP(x.F0, x.F3, x.F1, x.F2),
           f13 |-> QM(x.F0, x.F2, x.F1, x.F3),
           f21 |-> QM(x.F0, x.F3, x.F2, x.F1),
           f22 |-> QD(x.F0, x.F2),
           f23 |-> QP(x.F0, x.F1, x.F2, x.F3),
           f31 |-> QP(x.F0, x.F2, x.F3, x.F1),
           f32 |-> QM(x.F0, x.F1, x.F3, x.F2),
           f33 |-> QD(x.F0, x.F3),
           h1 |-> h[1], h2 |-> h[2], h3 |-> h[3],
           y1 |-> RAdd(RMul(R(-2), RAdd(RMul(x.E0, x.E2), RMul(x.E3, x.E1))),
                       RDiv(RAdd3(RNeg(dx.U1), RMul(h[2], x.U3),
                                  RNeg(RMul(h[3], x.U2))), G)),
           y2 |-> RAdd(RMul(R(-2), RSub(RMul(x.E3, x.E2), RMul(x.E0, x.E1))),
                       RDiv(RAdd3(RNeg(dx.U2), RMul(h[3], x.U1),
                                  RNeg(RMul(h[1], x.U3))), G)),
           y3 |-> RAdd(RNeg(QD(x.E0, x.E3)),
                       RDiv(RAdd3(RNeg(dx.U3), RMul(h[1], x.U2),
                                  RNeg(RMul(h[2], x.U1))), G))] :
          h \in {<<RMul(R(2), RAdd4(RMul(dx.E1, x.E0), RNeg(RMul(dx.E0, x.E1)),
                                    RMul(dx.E3, x.E2), RNeg(RMul(dx.E2, x.E3)))),
                   RMul(R(2), RAdd4(RMul(dx.E2, x.E0), RNeg(RMul(dx.E3, x.E1)),
                                    RNeg(RMul(dx.E0, x.E2)), RMul(dx.E1, x.E3))),
                   RMul(R(2), RAdd4(RMul(dx.E3, x.E0), RMul(dx.E2, x.E1),
                                    RNeg(RMul(dx.E1, x.E2)),
                                    RNeg(RMul(dx.E0, x.E3))))>>}})

\* the ahrs.Control literal of control
controlOf(x, dx, t) ==
    Only({[H1 |-> RAdd3(RMul(k.h1, k.f11), RMul(k.h2, k.f12), RMul(k.h3, k.f13)),
           H2 |-> RAdd3(RMul(k.h1, k.f21), RMul(k.h2, k.f22), RMul(k.h3, k.f23)),
           H3 |-> RAdd3(RMul(k.h1, k.f31), RMul(k.h2, k.f32), RMul(k.h3, k.f33)),
           A1 |-> RAdd3(RMul(k.y1, k.f11), RMul(k.y2, k.f12), RMul(k.y3, k.f13)),
           A2 |-> RAdd3(RMul(k.y1, k.f21), RMul(k.y2, k.f22), RMul(k.y3, k.f23)),
           A3 |-> RAdd3(RMul(k.y1, k.f31), RMul(k.y2, k.f32), RMul(k.y3, k.f33)),
           T |-> millis(t)] :
          k \in {controlFragments(x, dx)}})

\* ahrs.Control{}
ZeroControl ==
    [H1 |-> Zero, H2 |-> Zero, H3 |-> Zero,
     A1 |-> Zero, A2 |-> Zero, A3 |-> Zero, T |-> 0]

\* (ahrs.Control, error) of s.control(t)
control(sit, t) ==
    Only({IF p[1].err \/ p[2].err
          THEN [err |-> TRUE, x |-> ZeroControl]
          ELSE [err |-> FALSE, x |-> controlOf(p[1].x, p[2].x, t)] :
          p \in {<<interpolate(sit, t), derivative(sit, t)>>}})

\* the ahrs.Measurement literal of measurement
measurementOf(x, t) ==
    [W1 |-> RAdd4(x.V1, RMul(x.U1, QD(x.E0, x.E1)),
                  RMul(x.U2, QP(x.E0, x.E3, x.E1, x.E2)),
                  RMul(x.U3, QM(x.E0, x.E2, x.E1, x.E3))),
     W2 |-> RAdd4(x.V2, RMul(x.U1, QM(x.E0, x.E3, x.E2, x.E1)),
                  RMul(x.U2, QD(x.E0, x.E2)),
                  RMul(x.U3, QP(x.E0, x.E1, x.E2, x.E3))),
     W3 |-> RAdd4(x.V3, RMul(x.U1, QP(x.E0, x.E2, x.E3, x.E1)),
                  RMul(x.U2, QM(x.E0, x.E1, x.E3, x.E2)),
                  RMul(x.U3, QD(x.E0, x.E3))),
     M1 |-> RAdd3(RMul(x.M1, QD(x.E0, x.E1)),
                  RMul(x.M2, QM(x.E0, x.E3, x.E1, x.E2)),
                  RMul(x.M3, QP(x.E0, x.E2, x.E1, x.E3))),
     M2 |-> RAdd3(RMul(x.M1, QP(x.E0, x.E3, x.E2, x.E1)),
                  RMul(x.M2, QD(x.E0, x.E2)),
                  RMul(x.M3, QM(x.E0, x.E1, x.E2, x.E3))),
     M3 |-> RAdd3(RMul(x.M1, QM(x.E0, x.E2, x.E3, x.E1)),
                  RMul(x.M2, QP(x.E0, x.E1, x.E3, x.E2)),
                  RMul(x.M3, QD(x.E0, x.E3))),
     U1 |-> x.U1, U2 |-> x.U2, U3 |-> x.U3,
     T |-> millis(t)]

\* ahrs.Measurement{}
ZeroMeasurement ==
    [W1 |-> Zero, W2 |-> Zero, W3 |-> Zero,
     M1 |-> Zero, M2 |-> Zero, M3 |-> Zero,
     U1 |-> Zero, U2 |-> Zero, U3 |-> Zero, T |-> 0]

\* (ahrs.Measurement, error) of s.measurement(t); the error of the
\* interpolation is dropped
measurement(sit, t) ==
    IF outOfRange(sit, t)
    THEN [err |-> TRUE, x |-> ZeroMeasurement]
    ELSE [err |-> FALSE,
          x |-> Only({measurementOf(x, t) : x \in {interpolate(sit, t).x}})]
\* []float64{...} of whole numbers, and a slice holding one value
Floats(q) == [i \in DOMAIN q |-> R(q[i])]
Held(n, v) == [i \in 1..n |-> v]

Level == Angle(0, One, Zero)            \* 0
East == Angle(1, One, Zero)             \* pi/2
West == Angle(3, One, Zero)             \* 3 pi/2
Banked == Angle(0, <<4, 5>>, <<3, 5>>)  \* 2 atan(3/4)
Nosed == Angle(0, <<12, 13>>, <<5, 13>>) \* 2 atan(5/12), below pi/2
Steep == Angle(0, <<4, 5>>, <<-3, 5>>)  \* -2 atan(3/4), above -pi/2

\* sitTurnDef: its keyframe times, speeds, wind and field; the attitude is
\* held level and heading east, the mush is a whole number
sitTurnDef ==
    [t |-> Floats(<<0, 10, 15, 255, 260, 270>>),
     u1 |-> Floats(<<120, 120, 120, 120, 120, 120>>),
     u2 |-> Floats(<<0, 0, 0, 0, 0, 0>>),
     u3 |-> Floats(<<0, 0, -4, -4, 0, 0>>),
     phi |-> Held(6, Level), theta |-> Held(6, Level), psi |-> Held(6, East),
     phi0 |-> Held(6, Level), theta0 |-> Held(6, Level), psi0 |-> Held(6, East),
     v1 |-> Floats(<<3, 3, 3, 3, 3, 3>>),
     v2 |-> Floats(<<4, 4, 4, 4, 4, 4>>),
     v3 |-> Floats(<<0, 0, 0, 0, 0, 0>>),
     m1 |-> Floats(<<0, 0, 0, 0, 0, 0>>),
     m2 |-> Floats(<<0, 0, 0, 0, 0, 0>>),
     m3 |-> Floats(<<0, 0, 0, 0, 0, 0>>)]

\* a scenario of two keyframes: a banked acceleration in a changing wind
\* and field
sitClimb ==
    [t |-> Floats(<<2, 4>>),
     u1 |-> Floats(<<90, 100>>),
     u2 |-> Floats(<<0, 2>>),
     u3 |-> Floats(<<0, -6>>),
     phi |-> Held(2, Banked), theta |-> Held(2, Level), psi |-> Held(2, West),
     phi0 |-> Held(2, Level), theta0 |-> Held(2, Level), psi0 |-> Held(2, East),
     v1 |-> Floats(<<3, 5>>),
     v2 |-> Floats(<<4, 0>>),
     v3 |-> Floats(<<0, 1>>),
     m1 |-> Floats(<<20, 24>>),
     m2 |-> Floats(<<0, 8>>),
     m3 |-> Floats(<<-40, -44>>)]

\* a scenario of four unevenly spaced keyframes, the sensor mounted banked
sitGust ==
    [t |-> Floats(<<1, 2, 5, 9>>),
     u1 |-> Floats(<<100, 110, 80, 100>>),
     u2 |-> Floats(<<0, 3, -3, 0>>),
     u3 |-> Floats(<<0, 0, 6, 0>>),
     phi |-> Held(4, Level), theta |-> Held(4, Steep), psi |-> Held(4, East),
     phi0 |-> Held(4, Banked), theta0 |-> Held(4, Level), psi0 |-> Held(4, East),
     v1 |-> Floats(<<0, 10, -10, 0>>),
     v2 |-> Floats(<<4, 4, 8, 4>>),
     v3 |-> Floats(<<0, 2, 0, 0>>),
     m1 |-> Floats(<<20, 20, 26, 20>>),
     m2 |-> Floats(<<0, 4, 0, 0>>),
     m3 |-> Floats(<<-40, -40, -46, -40>>)]

Situations == {sitTurnDef, sitClimb, sitGust}

\* the times asked of a scenario: a second before it, its keyframes, the
\* middle and the first fifth of every segment, half a millisecond before
\* its end, a second after it
QueryTimes(sit) ==
    {RSub(at(sit.t, 0), One), RAdd(at(sit.t, Len(sit.t) - 1), One),
     RSub(at(sit.t, Len(sit.t) - 1), <<1, 2000>>)}
      \cup {at(sit.t, k) : k \in 0..(Len(sit.t) - 1)}
      \cup {RAdd(RMul(w, at(sit.t, k)), RMul(RSub(One, w), at(sit.t, k + 1))) :
              k \in 0..(Len(sit.t) - 2), w \in {<<1, 2>>, <<4, 5>>}}

Rolls == {Level, Banked, Angle(0, <<3, 5>>, <<-4, 5>>), Angle(2, One, Zero),
          Angle(4, <<4, 5>>, <<3, 5>>)}
Pitches == {Level, Nosed, Steep,
            Angle(0, <<3, 5>>, <<4, 5>>)}
Headings == {East, West, Angle(1, <<4, 5>>, <<3, 5>>),
             Angle(1, <<5, 13>>, <<-12, 13>>), Angle(-3, <<3, 5>>, <<4, 5>>),
             Angle(5, <<12, 13>>, <<5, 13>>)}

Quat(a, b, c, d) == [q0 |-> a, q1 |-> b, q2 |-> c, q3 |-> d]
\* quaternions handed to FromQuaternion directly; the last ones head
\* 0.05 rad and 0.00004 rad west of north
Quaternions ==
    {Quat(One, Zero, Zero, Zero), Quat(Zero, Zero, Zero, One),
     Quat(Half, Half, Half, Half),
     Quat(R(20), Zero, Zero, R(-21)),
     Quat(R(23660), Zero, Zero, R(-23661))}

InitSim ==
    /\ InitMPU
    /\ s \in Situations
    /\ fpc = [op |-> "none"]

CallInterpolate ==
    /\ fpc.op = "none"
    /\ \E t \in QueryTimes(s) :
          fpc' = [op |-> "interpolate", t |-> t, out |-> interpolate(s, t)]
    /\ UNCHANGED <<mpuVars, s>>

CallDerivative ==
    /\ fpc.op = "none"
    /\ \E t \in QueryTimes(s) :
          fpc' = [op |-> "derivative", t |-> t, out |-> derivative(s, t)]
    /\ UNCHANGED <<mpuVars, s>>

CallControl ==
    /\ fpc.op = "none"
    /\ \E t \in QueryTimes(s) :
          fpc' = [op |-> "control", t |-> t, out |-> control(s, t)]
    /\ UNCHANGED <<mpuVars, s>>

CallMeasurement ==
    /\ fpc.op = "none"
    /\ \E t \in QueryTimes(s) :
          fpc' = [op |-> "measurement", t |-> t, out |-> measurement(s, t)]
    /\ UNCHANGED <<mpuVars, s>>

CallToQuaternion ==
    /\ fpc.op = "none"
    /\ \E phi \in Rolls, theta \in Pitches, psi \in Headings :
          fpc' = [op |-> "ToQuaternion", phi |-> phi, theta |-> theta,
                  psi |-> psi, out |-> ToQuaternion(phi, theta, psi)]
    /\ UNCHANGED <<mpuVars, s>>

\* FromQuaternion of a quaternion given directly, of the one ToQuaternion
\* just returned, or of the attitude interpolate just returned
CallFromQuaternion ==
    /\ \E q \in IF fpc.op = "none" THEN Quaternions
                 ELSE IF fpc.op = "ToQuaternion" THEN {fpc.out}
                 ELSE IF fpc.op = "interpolate" /\ ~fpc.out.err
                 THEN {Quat(fpc.out.x.E0, fpc.out.x.E1,
                            fpc.out.x.E2, fpc.out.x.E3)}
                 ELSE {} :
          fpc' = [op |-> "FromQuaternion", q |-> q,
                  of |-> IF fpc.op = "ToQuaternion"
                         THEN <<fpc.phi, fpc.theta, fpc.psi>> ELSE <<>>,
                  out |-> FromQuaternion(q.q0, q.q1, q.q2, q.q3)]
    /\ UNCHANGED <<mpuVars, s>>

NextSim ==
    \/ CallInterpolate
    \/ CallDerivative
    \/ CallControl
    \/ CallMeasurement
    \/ CallToQuaternion
    \/ CallFromQuaternion

SpecSim == InitSim /\ [][NextSim]_vars

(***************************************************************************)
(* Properties of Part IV, checked under SpecSim.                           *)
(***************************************************************************)
Queries == {"interpolate", "derivative", "control", "measurement"}

\* C23: each of the four scenario queries returns an error exactly when the
\* requested time lies before the first keyframe time or after the last
\* one; at the first and at the last keyframe time, and anywhere between,
\* it returns a result and no error.
C23_ErrorExactlyOutsideScenario ==
    fpc.op \in Queries =>
      (fpc.out.err <=> (\/ RGt(s.t[1], fpc.t)
                        \/ RGt(fpc.t, s.t[Len(s.t)])))

C23_Witness ==
    /\ fpc.op = "control"
    /\ fpc.t = s.t[Len(s.t)]
    /\ ~fpc.out.err
    /\ fpc.out.x.H1 = Zero

\* pi/2 + atan2(y, x) (+ 2 pi) is negative: not wrapped, and (x, y) in the
\* open third quadrant
headingNegative(psi) ==
    ~psi.wrapped /\ RGt(Zero, psi.y) /\ RGt(Zero, psi.x)

\* pi/2 + atan2(y, x) + 2 pi is 2 pi or more: wrapped, and (x, y) outside
\* the open third quadrant
headingReachesTwoPi(psi) ==
    psi.wrapped /\ ~(RGt(Zero, psi.y) /\ RGt(Zero, psi.x))

\* C24: for every quaternion the heading FromQuaternion returns lies in
\* [0, 2 pi): it is not negative and it is below 2 pi.
C24_HeadingInRange ==
    fpc.op = "FromQuaternion" =>
      /\ ~headingNegative(fpc.out.psi)
      /\ ~headingReachesTwoPi(fpc.out.psi)

\* d turned by k quarter turns
turned(k, d) ==
    IF k = 0 THEN d
    ELSE IF k = 1 THEN <<RNeg(d[2]), d[1]>>
    ELSE IF k = 2 THEN <<RNeg(d[1]), RNeg(d[2])>>
    ELSE <<d[2], RNeg(d[1])>>

\* (cos a, sin a) of an angle, from the cosine and sine of its half
directionOf(a) ==
    turned(a.quarter % 4,
           <<RSub(RMul(a.half[1], a.half[1]), RMul(a.half[2], a.half[2])),
             RMul(R(2), RMul(a.half[1], a.half[2]))>>)

\* atan2(y, x) is the angle of direction d, modulo 2 pi: (x, y) is a
\* positive multiple of d
alongDirection(x, y, d) ==
    /\ RSub(RMul(x, d[2]), RMul(y, d[1])) = Zero
    /\ RGt(RAdd(RMul(x, d[1]), RMul(y, d[2])), Zero)

\* an angle strictly between -pi/2 and pi/2
pitchInRange(a) ==
    /\ a.quarter = 0
    /\ RGt(a.half[1], a.half[2])
    /\ RGt(a.half[1], RNeg(a.half[2]))

\* C25: for angles phi, theta, psi with theta strictly between -pi/2 and
\* pi/2, FromQuaternion of ToQuaternion(phi, theta, psi) returns phi and
\* psi modulo 2 pi, and theta.
C25_RoundTrip ==
    (fpc.op = "FromQuaternion" /\ fpc.of # <<>> /\ pitchInRange(fpc.of[2])) =>
      /\ alongDirection(fpc.out.phi.x, fpc.out.phi.y, directionOf(fpc.of[1]))
      /\ fpc.out.theta = directionOf(fpc.of[2])[2]
      /\ alongDirection(fpc.out.psi.x, fpc.out.psi.y,
                        turned(3, directionOf(fpc.of[3])))

C25_Witness ==
    /\ fpc.op = "FromQuaternion"
    /\ fpc.of # <<>>
    /\ fpc.of[1] = Angle(4, <<4, 5>>, <<3, 5>>)
    /\ fpc.of[2] = Nosed
    /\ fpc.of[3] = Angle(-3, <<3, 5>>, <<4, 5>>)
    /\ fpc.out.theta = <<120, 169>>

strictlyIncreasing(a) == \A k \in 1..(Len(a) - 1) : RGt(a[k + 1], a[k])

Interpolated == {<<"U1", "u1">>, <<"U2", "u2">>, <<"U3", "u3">>,
                 <<"V1", "v1">>, <<"V2", "v2">>, <<"V3", "v3">>,
                 <<"M1", "m1">>, <<"M2", "m2">>, <<"M3", "m3">>}

\* C30: in a scenario whose keyframe times increase strictly, interpolate
\* at the time of a keyframe (the first, an inner one, the last) returns
\* that keyframe's U, V and M; at a time strictly between keyframes k and
\* k+1 it returns for each of them f x[k] + (1-f) x[k+1] with
\* f = (t[k+1] - t) / (t[k+1] - t[k]), 0 < f < 1; the two keyframes it reads
\* are inside the arrays.
C30_InterpolateHitsKeyframes ==
    (fpc.op = "interpolate" /\ ~fpc.out.err /\ strictlyIncreasing(s.t)) =>
      /\ keyframeIndex(s, fpc.t) \in 0..(Len(s.t) - 2)
      /\ \A k \in 1..Len(s.t) : fpc.t = s.t[k] =>
            \A p \in Interpolated : fpc.out.x[p[1]] = s[p[2]][k]
      /\ \A k \in 1..(Len(s.t) - 1) :
            (RGt(fpc.t, s.t[k]) /\ RGt(s.t[k + 1], fpc.t)) =>
               \E f \in {RDiv(RSub(s.t[k + 1], fpc.t),
                              RSub(s.t[k + 1], s.t[k]))} :
                  /\ RGt(f, Zero) /\ RGt(One, f)
                  /\ \A p \in Interpolated :
                        fpc.out.x[p[1]] =
                          RAdd(RMul(f, s[p[2]][k]),
                               RMul(RSub(One, f), s[p[2]][k + 1]))

C30_Witness ==
    /\ fpc.op = "interpolate"
    /\ ~fpc.out.err
    /\ \E k \in 2..(Len(s.t) - 1) :
          /\ fpc.t = s.t[k]
          /\ fpc.out.x.U1 = s.u1[k]
          /\ s.u1[k] # s.u1[k - 1]
          /\ s.u1[k] # s.u1[k + 1]

(***************************************************************************)
(* Part V  src/ahrs/ahrs.go : the gain of Update, lines 279-286.           *)
(*                                                                         *)
(* kk = s.M . h^T . m2 with m2 the inverse of ss = h . s.M . h^T + m.M.    *)
(* The covariance s.M is not kept as numbers, so the two factors are given *)
(* by what the rows of h leave of them: column i of s.M . h^T is the       *)
(* product of s.M with row i of h, zero when calcJacobianMeasurement sets  *)
(* nothing in that row; entry (i, j) of ss off the diagonal is row i of h  *)
(* times s.M times row j of h plus the entry of a diagonal m.M, zero when  *)
(* either row is, so ss and its inverse m2 keep such a row and column to   *)
(* themselves, with 1 / m.M[i,i] on the diagonal.  The other entries are   *)
(* inputs.  Specification: SpecGain, one Update from each drawn state.     *)
(***************************************************************************)
\* the columns calcJacobianMeasurement sets in rows 0-11 of h (i from 1)
measuredRow(i) ==
    IF i \in 1..3 THEN {StateOrder[i]}
    ELSE IF i \in 4..6
    THEN {"U1", "U2", "U3", "E0", "E1", "E2", "E3", StateOrder[i + 13]}
    ELSE IF i \in 7..9
    THEN {"U1", "U2", "U3", "Z1", "Z2", "Z3", "E0", "E1", "E2", "E3",
          "H1", "H2", "H3", "F0", "F1", "F2", "F3", StateOrder[i + 13]}
    ELSE {"H1", "H2", "H3", StateOrder[i + 17]}

\* the columns set in each row of h if lines 522-557 were not a comment
jacobianRowWithField(i) ==
    IF i \in 13..15
    THEN {"E0", "E1", "E2", "E3", "N1", "N2", "N3", StateOrder[i + 17]}
    ELSE measuredRow(i)

\* the columns calcJacobianMeasurement sets in row i-1 of h: none in the
\* rows 12-14 of the magnetometer
jacobianRow(i) == IF i \in 13..15 THEN {} ELSE measuredRow(i)

\* entries of s.M . h^T, had every row of h something set: for a state
\* scalar the sequence of <<i, value>> of its row
CrossCovariance ==
    [f \in {"U1", "V1", "D1", "N1", "N2", "L1", "L3"} |->
        CASE f = "U1" -> <<<<1, Half>>>>
          [] f = "V1" -> <<<<1, <<1, 4>>>>, <<4, Half>>>>
          [] f = "D1" -> <<<<10, Half>>, <<13, <<1, 4>>>>>>
          [] f = "N1" -> <<<<13, Half>>>>
          [] f = "N2" -> <<<<14, Half>>>>
          [] f = "L1" -> <<<<13, <<1, 4>>>>>>
          [] f = "L3" -> <<<<15, <<1, 4>>>>>>]

\* entries of the inverse of ss, had every row of h something set
InverseEntry ==
    [p \in {<<i, i>> : i \in 1..15}
             \cup {<<1, 4>>, <<4, 1>>, <<10, 13>>, <<13, 10>>, <<14, 15>>,
                   <<15, 14>>} |->
        IF p[1] = p[2] THEN Half ELSE <<-1, 4>>]

\* matrix.Product(s.M, h.Transpose()), entry (f, i) given as e = <<i, value>>
covarianceByJacobian(e) == IF jacobianRow(e[1]) = {} THEN Zero ELSE e[2]

\* m2 = ss.Inverse(), entry (i, j), for the noise diagonal r
inverseEntry(r, i, j) ==
    IF jacobianRow(i) = {} \/ jacobianRow(j) = {}
    THEN (IF i = j THEN RDiv(One, r[i]) ELSE Zero)
    ELSE IF <<i, j>> \in DOMAIN InverseEntry THEN InverseEntry[<<i, j>>]
    ELSE Zero

RECURSIVE gainEntry(_, _, _, _)
\* the sum over i of (s.M . h^T)[f, i] * m2[i, j], from the k-th entry of
\* the row of f on
gainEntry(r, row, j, k) ==
    IF k > Len(row) THEN Zero
    ELSE RAdd(RMul(covarianceByJacobian(row[k]), inverseEntry(r, row[k][1], j)),
              gainEntry(r, row, j, k + 1))

\* kk of line 286 for the noise diagonal r, by rows
kalmanGain(r) ==
    [f \in DOMAIN CrossCovariance |->
        [j \in 1..15 |-> <<j, gainEntry(r, CrossCovariance[f], j, 1)>>]]

\* magnetometer readings M1, M2, M3
FieldReadings == {<<20, 0, -40>>, <<-7, 13, 2>>}

\* the measurement m with the magnetometer reading b
withField(m, b) == [m EXCEPT !.M1 = R(b[1]), !.M2 = R(b[2]), !.M3 = R(b[3])]

\* Update(m) on the drawn state, the gain computed from the rows of h and
\* the noise diagonal of m
StepUpdateGain ==
    /\ fpc.op \in {"Initialize", "State"}
    /\ \E p \in {PredictMeasurement(s)} :
       \E m \in UpdMeas, ok \in BOOLEAN :
       \E kk \in {kalmanGain(noiseDiagonal(m))} :
       \E u \in {Update(p, m, ok, kk)} :
         /\ s' = u.s
         /\ fpc' = [op |-> "Update", ok |-> ok, t |-> m.T, m |-> m,
                    kk |-> kk, pre |-> s, y |-> u.y, R |-> u.R, z |-> p.m]
    /\ UNCHANGED mpuVars

NextGain == StepUpdateGain

SpecGain == InitStep /\ [][NextGain]_vars

\* the state Update leaves from the state st for the measurement m
updated(st, m, ok) ==
    Only({Update(q[1], m, ok, q[2]).s :
            q \in {<<PredictMeasurement(st), kalmanGain(noiseDiagonal(m))>>}})

\* C26: the state after Update does not depend on the magnetometer
\* reading: an Update from the same state with the same validity flags,
\* the same diagonal noise and another M1, M2, M3 leaves the same 32 state
\* scalars, the same time and the same covariance.
C26_FieldReadingIgnored ==
    fpc.op = "Update" =>
      \A b \in FieldReadings :
         \E m \in {withField(fpc.m, b)} : updated(fpc.pre, m, fpc.ok) = s

C26_Witness ==
    /\ fpc.op = "Update"
    /\ fpc.ok
    /\ fpc.m.MValid
    /\ fpc.y[13] # Zero
    /\ fpc.m.M1 # R(-7)
    /\ s.U1 # fpc.pre.U1
    /\ updated(fpc.pre, withField(fpc.m, <<-7, 13, 2>>), fpc.ok).N1 = s.N1

=============================================================================
